---- MODULE Spec2Model ----
(***************************************************************************)
(* Influence scoring engine of influence-graph: the TTL result cache       *)
(* (InfluenceCache, CacheKeys), the propagation / decay / volatility       *)
(* functions of lib/influence-engine.ts, the recalculation route           *)
(* (api/influence/recalculate) and the edge, analytics and project routes  *)
(* that read and invalidate the cache.                                     *)
(*                                                                         *)
(* Strings are sequences of symbols: a symbol stands for a run of          *)
(* characters that the patterns built by the routes never split ("graph",  *)
(* ":", one character of a tenant id).  Numbers of the engine are          *)
(* fixed-point integers: a score or a carried propagation weight x is      *)
(* held as x * Scale; edge weights are whole numbers.  The clock `now` is  *)
(* Date.now() counted in ticks: a minute where cache entries expire        *)
(* (SpecCache, Spec), one halving period of the decay where weights decay  *)
(* (SpecRecompute).                                                        *)
(***************************************************************************)
EXTENDS Integers, Sequences, FiniteSets, TLC

VARIABLES
    now,        \* Date.now(), in ticks
    cache,      \* InfluenceCache.cache : key -> CacheEntry
    stats,      \* InfluenceCache.stats : [hits, misses]
    ret,        \* the last call and what it returned to its caller
    written,    \* history: per key, the last set() not yet undone by a delete
    users,      \* db.user : id -> [organizationId, isActive]
    scores,     \* db.influenceScore, scoreType TOTAL : user id -> row or NoRow
    edges,      \* db.influenceEdge : id -> edge or NoEdge
    events,     \* db.influenceEvent : id -> event or NoEvent
    stale,      \* history: cache keys stored before their tenant's last mutation
    rc,         \* the recalculation request in flight: its position and locals
    folded,     \* history: events whose delta this cycle wrote into a stored score
    last,       \* history: the previous request, if it completed
    base,       \* history: the store when the first attempt of this request began
    call,       \* a call of an engine function: its arguments, locals and result
    inflight,   \* the other request in flight, suspended at an await
    cleanupInterval  \* InfluenceCache.cleanupInterval : the sweep's timer or null

cacheVars == <<cache, stats, ret, written, stale>>
storeVars == <<users, scores, edges, events>>
rcVars == <<rc, folded, last, base>>
sideVars == <<inflight, cleanupInterval>>

\* ---------------------------------------------------------------- bounds
MaxTime == 2        \* the clock runs 0..MaxTime
MaxLookups == 2     \* get()/getOrSet() calls counted by stats
MaxAge == 1         \* recalculation runs at a time 0..MaxAge after the edges' creation
MaxCycles == 2      \* recalculation requests in one behaviour

\* ------------------------------------------------------------- utilities
Null == "null"      \* JavaScript null, as a value and as get()'s miss result
Timer == "timer"    \* the handle setInterval returned to the constructor
NoRequest == [pc |-> "none"]    \* no other request is in flight

Max(a, b) == IF a >= b THEN a ELSE b
Min(a, b) == IF a <= b THEN a ELSE b

\* ------------------------------------------------------- tenants and keys
OrgA == <<"a">>
OrgB == <<"a", "b">>          \* a tenant id that extends OrgA's
Orgs == {OrgA, OrgB}

\* CacheKeys (the generators the routes and the claims use)
graph(orgId) == <<"graph", ":">> \o orgId
graphEdges(orgId) == <<"graph", ":", "edges", ":">> \o orgId
graphNodes(orgId) == <<"graph", ":", "nodes", ":">> \o orgId
influenceScores(orgId) == <<"scores", ":">> \o orgId
topInfluencers(orgId, metric) == <<"top", ":">> \o orgId \o <<":">> \o metric
analytics(orgId) == <<"analytics", ":">> \o orgId

\* ------------------------------------------------------ pattern matching
\* new RegExp(pattern.replace(/\*/g, '.*')): every "*" of the pattern becomes
\* the regular expression .* ; "." keeps its regular-expression meaning (any one
\* symbol); every other symbol matches itself.  MatchHere: the expression from
\* position pi on matches some prefix of key[ki..] (a RegExp without $ need not
\* reach the end of the key).
RECURSIVE MatchHere(_, _, _, _)
MatchHere(re, pi, key, ki) ==
    IF pi > Len(re) THEN TRUE
    ELSE IF re[pi] = "*"
         THEN \E j \in ki..(Len(key) + 1) : MatchHere(re, pi + 1, key, j)
         ELSE /\ ki <= Len(key)
              /\ (re[pi] = "." \/ re[pi] = key[ki])
              /\ MatchHere(re, pi + 1, key, ki + 1)

\* regex.test(key): a RegExp without ^ matches at any start position.
RegexTest(pattern, key) ==
    \E i \in 1..(Len(key) + 1) : MatchHere(pattern, 1, key, i)

\* ----------------------------------------------------------------- cache
Values == {Null, "v"}        \* what a caller stores; Null is a legal value
Ttls == {0, 1}               \* ttlMs arguments, in ticks
CacheOnlyKeys == {graph(OrgA), graph(OrgB)}
\* `graph:${organizationId}*` as the routes build it, for the two tenants and
\* for a caller-supplied organizationId of "(".
CacheOnlyPatterns ==
    {<<"graph", ":", "a", "b", "*">>, <<"graph", ":", "a", "*">>,
     <<"graph", ":", "(", "*">>}

\* op: the call; key, val, ttl: its arguments and result; flag: a boolean result,
\* or "answered from the cache" for a route; count: a numeric result, or the HTTP
\* status for a route; invalid: the request carried a self-edge, an out-of-range
\* weight or no id; error: what the call threw to its caller, if it threw.
NoRet == [op |-> "none", key |-> <<>>, val |-> Null, flag |-> FALSE,
          count |-> 0, ttl |-> 0, invalid |-> FALSE, error |-> "none"]

IsExpiredGE(entry, t) == t >= entry.expiresAt
\* Date.now() > entry.expiresAt
IsExpired(entry, t) == t > entry.expiresAt

Remove(c, keys) == [k \in (DOMAIN c) \ keys |-> c[k]]
Store(c, key, value, ttlMs, t) ==
    [k \in (DOMAIN c) \cup {key} |->
        IF k = key
        THEN [value |-> value, expiresAt |-> t + ttlMs, createdAt |-> t]
        ELSE c[k]]

\* What get(key) does to the map and the counters, and what it returns.
GetResult(c, s, key, t) ==
    IF key \notin DOMAIN c
    THEN [cache |-> c, stats |-> [s EXCEPT !.misses = @ + 1], val |-> Null]
    ELSE IF IsExpired(c[key], t)
         THEN [cache |-> Remove(c, {key}),
               stats |-> [s EXCEPT !.misses = @ + 1], val |-> Null]
         ELSE [cache |-> c, stats |-> [s EXCEPT !.hits = @ + 1],
               val |-> c[key].value]

Lookups == stats.hits + stats.misses

get(key) ==
    /\ Lookups < MaxLookups
    /\ LET r == GetResult(cache, stats, key, now) IN
        /\ cache' = r.cache
        /\ stats' = r.stats
        /\ ret' = [NoRet EXCEPT !.op = "get", !.key = key, !.val = r.val]
    /\ UNCHANGED <<now, sideVars, written>>

set(key, value, ttlMs) ==
    /\ cache' = Store(cache, key, value, ttlMs, now)
    /\ ret' = [NoRet EXCEPT !.op = "set", !.key = key, !.val = value, !.ttl = ttlMs]
    /\ written' = [k \in (DOMAIN written) \cup {key} |->
                      IF k = key THEN [value |-> value, at |-> now, ttl |-> ttlMs]
                      ELSE written[k]]
    /\ UNCHANGED <<now, sideVars, stats>>

has(key) ==
    /\ IF key \notin DOMAIN cache
       THEN /\ cache' = cache
            /\ ret' = [NoRet EXCEPT !.op = "has", !.key = key, !.flag = FALSE]
       ELSE IF IsExpired(cache[key], now)
            THEN /\ cache' = Remove(cache, {key})
                 /\ ret' = [NoRet EXCEPT !.op = "has", !.key = key, !.flag = FALSE]
            ELSE /\ cache' = cache
                 /\ ret' = [NoRet EXCEPT !.op = "has", !.key = key, !.flag = TRUE]
    /\ UNCHANGED <<now, sideVars, stats, written>>

delete(key) ==
    /\ cache' = Remove(cache, {key})
    /\ ret' = [NoRet EXCEPT !.op = "delete", !.key = key,
                            !.flag = (key \in DOMAIN cache)]
    /\ written' = Remove(written, {key})
    /\ UNCHANGED <<now, sideVars, stats>>

\* The keys deletePattern(pattern) removes from a map with these keys.
PatternKeys(pattern, keys) == {k \in keys : RegexTest(pattern, k)}

\* new RegExp(source) throws a SyntaxError on a source that is no regular
\* expression; of the symbols used here that is a "(", a group never closed.
RegExpThrows(pattern) == \E i \in DOMAIN pattern : pattern[i] = "("

deletePattern(pattern) ==
    /\ IF RegExpThrows(pattern)
       THEN /\ ret' = [NoRet EXCEPT !.op = "deletePattern", !.key = pattern,
                                    !.error = "SyntaxError"]
            /\ UNCHANGED <<cache, written>>
       ELSE LET gone == PatternKeys(pattern, DOMAIN cache) IN
            /\ cache' = Remove(cache, gone)
            /\ ret' = [NoRet EXCEPT !.op = "deletePattern", !.key = pattern,
                                    !.count = Cardinality(gone)]
            /\ written' = Remove(written, PatternKeys(pattern, DOMAIN written))
    /\ UNCHANGED <<now, sideVars, stats>>

clear ==
    /\ cache' = << >>
    /\ stats' = [hits |-> 0, misses |-> 0]
    /\ ret' = [NoRet EXCEPT !.op = "clear"]
    /\ written' = << >>
    /\ UNCHANGED <<now, sideVars>>

\* getStats(): size is returned in count, hitRate as a boolean "above zero".
getStats ==
    /\ ret' = [NoRet EXCEPT !.op = "getStats",
                            !.count = Cardinality(DOMAIN cache),
                            !.flag = IF stats.hits + stats.misses > 0
                                     THEN stats.hits > 0 ELSE FALSE]
    /\ UNCHANGED <<now, sideVars, cache, stats, written>>

\* getOrSet(key, factory, ttlMs) with no other call between its get and its set;
\* value is what factory() resolves to.
getOrSet(key, value, ttlMs) ==
    /\ Lookups < MaxLookups
    /\ LET r == GetResult(cache, stats, key, now) IN
        /\ stats' = r.stats
        /\ IF r.val # Null
           THEN /\ cache' = r.cache
                /\ ret' = [NoRet EXCEPT !.op = "getOrSet", !.key = key,
                                        !.val = r.val, !.ttl = ttlMs]
                /\ written' = written
           ELSE /\ cache' = Store(r.cache, key, value, ttlMs, now)
                /\ ret' = [NoRet EXCEPT !.op = "getOrSet", !.key = key,
                                        !.val = value, !.count = 1, !.ttl = ttlMs]
                /\ written' = [k \in (DOMAIN written) \cup {key} |->
                                  IF k = key
                                  THEN [value |-> value, at |-> now, ttl |-> ttlMs]
                                  ELSE written[k]]
    /\ UNCHANGED <<now, sideVars>>

cleanupWithoutTimer ==
    /\ cache' = Remove(cache, {k \in DOMAIN cache : IsExpired(cache[k], now)})
    /\ ret' = [NoRet EXCEPT !.op = "cleanup"]
    /\ UNCHANGED <<now, sideVars, stats, written>>

\* The setInterval sweep: private, it runs only as the timer's callback.
cleanup ==
    /\ cleanupInterval # Null
    /\ cache' = Remove(cache, {k \in DOMAIN cache : IsExpired(cache[k], now)})
    /\ ret' = [NoRet EXCEPT !.op = "cleanup"]
    /\ UNCHANGED <<now, sideVars, stats, written>>

\* destroy(): clearInterval, cleanupInterval = null, cache.clear(); the
\* counters are left as they are.
destroy ==
    /\ cleanupInterval' = Null
    /\ cache' = << >>
    /\ ret' = [NoRet EXCEPT !.op = "destroy"]
    /\ written' = << >>
    /\ UNCHANGED <<now, inflight, stats>>

Tick ==
    /\ now < MaxTime
    /\ now' = now + 1
    /\ ret' = [NoRet EXCEPT !.op = "tick"]
    /\ UNCHANGED <<cache, stats, written, stale, storeVars, rcVars, call, sideVars>>

\* ---------------------------------------------------------------- engine
\* One unit of score or of carried weight is Scale; with whole edge weights that
\* are multiples of 5 every product below is exact to MAX_DEPTH hops.
Scale == 1000 * 1000
MAX_DEPTH == 3
DECAY_FACTOR == 6                          \* 0.6, in tenths
MIN_WEIGHT_THRESHOLD == Scale \div 100     \* 0.01

RECURSIVE SumSeq(_)
SumSeq(s) == IF s = << >> THEN 0 ELSE Head(s) + SumSeq(Tail(s))

Abs(x) == IF x < 0 THEN -x ELSE x

RECURSIVE Gcd(_, _)
Gcd(a, b) == IF b = 0 THEN a ELSE Gcd(b, a % b)

RECURSIVE GcdSeq(_)
GcdSeq(s) == IF s = << >> THEN 0 ELSE Gcd(Abs(Head(s)), GcdSeq(Tail(s)))

\* The integer part of Math.sqrt(m), by bisection; MaxRoot is the highest root
\* of a 32-bit integer.
MaxRoot == 46340
RECURSIVE IsqrtIn(_, _, _)
IsqrtIn(m, lo, hi) ==
    IF lo >= hi THEN lo
    ELSE LET mid == (lo + hi + 1) \div 2
         IN IF mid * mid <= m THEN IsqrtIn(m, mid, hi)
            ELSE IsqrtIn(m, lo, mid - 1)
Isqrt(m) == IsqrtIn(m, 0, Min(m, MaxRoot))

\* buildAdjacencyList: source id -> its outgoing edges, in input order.
buildAdjacencyList(edgeSeq) ==
    [n \in {edgeSeq[i].sourceUserId : i \in DOMAIN edgeSeq} |->
        SelectSeq(edgeSeq, LAMBDA e : e.sourceUserId = n)]

\* adjacencyList.get(id) || []
Neighbors(adjacencyList, id) ==
    IF id \in DOMAIN adjacencyList THEN adjacencyList[id] ELSE << >>

PropagatedWeightNoDecay(weight, edgeWeight, decayFactor) ==
    (weight * edgeWeight) \div 100

\* current.weight * (edge.weight / 100) * decayFactor
PropagatedWeight(weight, edgeWeight, decayFactor) ==
    (weight * edgeWeight * decayFactor) \div 1000

RECURSIVE ExpandUnvisited(_, _, _)
ExpandUnvisited(current, neighbors, decayFactor) ==
    IF neighbors = << >> THEN << >>
    ELSE LET edge == Head(neighbors)
             w == PropagatedWeight(current.weight, edge.weight, decayFactor)
             rest == ExpandUnvisited(current, Tail(neighbors), decayFactor)
             visited == {current.path[i] : i \in DOMAIN current.path}
         IN IF w < MIN_WEIGHT_THRESHOLD \/ edge.targetUserId \in visited THEN rest
            ELSE <<[nodeId |-> edge.targetUserId, weight |-> w,
                    path |-> Append(current.path, edge.targetUserId),
                    depth |-> current.depth + 1]>> \o rest

\* The queue entries one dequeued entry adds: one per outgoing edge whose
\* propagated weight is not below the threshold, in edge order.
RECURSIVE Expand(_, _, _)
Expand(current, neighbors, decayFactor) ==
    IF neighbors = << >> THEN << >>
    ELSE LET edge == Head(neighbors)
             w == PropagatedWeight(current.weight, edge.weight, decayFactor)
             rest == Expand(current, Tail(neighbors), decayFactor)
         IN IF w < MIN_WEIGHT_THRESHOLD THEN rest
            ELSE <<[nodeId |-> edge.targetUserId, weight |-> w,
                    path |-> Append(current.path, edge.targetUserId),
                    depth |-> current.depth + 1]>> \o rest

AtMaxDepthOffByOne(depth, maxDepth) == depth > maxDepth

\* Stop at max depth: if (current.depth >= maxDepth) continue
AtMaxDepth(depth, maxDepth) == depth >= maxDepth

RECURSIVE IncomingWeight(_, _, _)
IncomingWeight(adjacencyList, ids, targetId) ==
    IF ids = {} THEN 0
    ELSE LET n == CHOOSE x \in ids : TRUE
         IN SumSeq([k \in DOMAIN adjacencyList[n] |->
                       IF adjacencyList[n][k].targetUserId = targetId
                       THEN adjacencyList[n][k].weight ELSE 0])
            + IncomingWeight(adjacencyList, ids \ {n}, targetId)
DirectInfluenceIncoming(adjacencyList, sourceId) ==
    Scale * IncomingWeight(adjacencyList, DOMAIN adjacencyList, sourceId)

\* Sum of the weights of the outgoing edges of sourceId.
DirectInfluence(adjacencyList, sourceId) ==
    LET out == Neighbors(adjacencyList, sourceId)
    IN Scale * SumSeq([i \in DOMAIN out |-> out[i].weight])

\* What one dequeued entry adds to paths and propagatedInfluence.
Record(acc, current) ==
    IF current.depth > 0
    THEN [paths |-> Append(acc.paths,
                       [path |-> current.path, weight |-> current.weight,
                        depth |-> current.depth]),
          propagatedInfluence |-> acc.propagatedInfluence + current.weight]
    ELSE acc

\* The while loop of propagateFromNode over the queue.
RECURSIVE Bfs(_, _, _, _, _)
Bfs(queue, adjacencyList, maxDepth, decayFactor, acc) ==
    IF queue = << >> THEN acc
    ELSE LET current == Head(queue)
             acc1 == Record(acc, current)
         IN IF AtMaxDepth(current.depth, maxDepth)
            THEN Bfs(Tail(queue), adjacencyList, maxDepth, decayFactor, acc1)
            ELSE Bfs(Tail(queue) \o
                       Expand(current, Neighbors(adjacencyList, current.nodeId),
                              decayFactor),
                     adjacencyList, maxDepth, decayFactor, acc1)

propagateFromNode(sourceId, adjacencyList, maxDepth, decayFactor) ==
    LET r == Bfs(<<[nodeId |-> sourceId, weight |-> Scale, path |-> <<sourceId>>,
                    depth |-> 0]>>,
                 adjacencyList, maxDepth, decayFactor,
                 [paths |-> << >>, propagatedInfluence |-> 0])
        directInfluence == DirectInfluence(adjacencyList, sourceId)
    IN [nodeId |-> sourceId,
        directInfluence |-> directInfluence,
        propagatedInfluence |-> r.propagatedInfluence,
        totalInfluence |-> directInfluence + r.propagatedInfluence,
        paths |-> r.paths]

\* nodeIds is a sequence of distinct ids; the result maps each to its result.
calculatePropagatedInfluence(edgeSeq, nodeIds, maxDepth, decayFactor) ==
    LET adjacencyList == buildAdjacencyList(edgeSeq) IN
    [n \in {nodeIds[i] : i \in DOMAIN nodeIds} |->
        propagateFromNode(n, adjacencyList, maxDepth, decayFactor)]

RECURSIVE IntPow(_, _)
IntPow(b, n) == IF n <= 0 THEN 1 ELSE b * IntPow(b, n - 1)

\* originalWeight * Math.pow(1 - decayRate, elapsed), elapsed = t - createdAt in
\* ticks and decayRate the rate per tick, given in halves (1 is 0.5, 3 is 1.5):
\* 1 - decayRate is (2 - decayRate) / 2.  Math.pow(0, negative) is Infinity.
\* Nothing is thrown: error stays "none".
DecayedWeight(originalWeight, createdAt, decayRate, t) ==
    LET elapsed == t - createdAt
        num == 2 - decayRate
    IN IF elapsed >= 0
       THEN [value |-> (originalWeight * IntPow(num, elapsed))
                           \div IntPow(2, elapsed),
             infinite |-> FALSE, error |-> "none"]
       ELSE IF num = 0
            THEN [value |-> 0, infinite |-> originalWeight # 0, error |-> "none"]
            ELSE [value |-> (originalWeight * IntPow(2, -elapsed))
                                \div IntPow(num, -elapsed),
                  infinite |-> FALSE, error |-> "none"]

\* The default rate: 5 % a day, the clock of a recalculation being counted in
\* half-lives of that rate (0.95 ^ d = 1/2, d about 13.5 days), which is a rate
\* of one half per tick.
DEFAULT_DECAY_RATE == 1

\* calculateDecayedWeight(originalWeight, createdAt) as the routes call it: one
\* tick halves a weight, and a createdAt later than t doubles it.
calculateDecayedWeight(originalWeight, createdAt, t) ==
    DecayedWeight(originalWeight, createdAt, DEFAULT_DECAY_RATE, t).value

\* A call of calculateDecayedWeight(originalWeight, createdAt, decayRate).
DecayCall(originalWeight, createdAt, decayRate) ==
    [fn |-> "calculateDecayedWeight", pc |-> "call",
     originalWeight |-> originalWeight, createdAt |-> createdAt,
     decayRate |-> decayRate,
     result |-> [value |-> 0, infinite |-> FALSE, error |-> "none"],
     at |-> 0, earlier |-> << >>]

\* The call is made, or made again, at the present time; `earlier` keeps the
\* results of the calls before it, oldest first.
DecayReturn ==
    /\ call.fn = "calculateDecayedWeight"
    /\ call.pc = "call" \/ call.at < now
    /\ call' = [call EXCEPT
           !.result = DecayedWeight(call.originalWeight, call.createdAt,
                                    call.decayRate, now),
           !.at = now, !.pc = "return",
           !.earlier = IF call.pc = "return"
                       THEN Append(@, [at |-> call.at, result |-> call.result])
                       ELSE @]
    /\ UNCHANGED <<now, sideVars, cacheVars, storeVars, rcVars>>

\* The same with the variance taken over n - 1 samples.
calculateVolatilitySample(historicalScores) ==
    IF Len(historicalScores) < 2 THEN 0
    ELSE LET n == Len(historicalScores)
             sum == SumSeq(historicalScores)
             dev == [i \in 1..n |-> n * historicalScores[i] - sum]
         IN Isqrt(SumSeq([i \in 1..n |-> dev[i] * dev[i]]) \div (n * n * (n - 1)))

\* Population standard deviation of the samples, to its integer part.  With
\* dev[i] = n * h[i] - sum and g their common factor, q the sum of the
\* (dev[i] / g)^2, the result is sqrt(g^2 * q / n^3) = sqrt(g^2 * q * n) / n^2.
\* Where g^2 * q * n leaves the integer range (scores held as multiples of
\* Scale) g is taken out of the root, which is exact where q * n is a square,
\* as it is for every history of two samples.
calculateVolatility(historicalScores) ==
    IF Len(historicalScores) < 2 THEN 0
    ELSE LET n == Len(historicalScores)
             sum == SumSeq(historicalScores)
             dev == [i \in 1..n |-> n * historicalScores[i] - sum]
             g == GcdSeq(dev)
         IN IF g = 0 THEN 0
            ELSE LET q == SumSeq([i \in 1..n |-> (dev[i] \div g) * (dev[i] \div g)])
                 IN IF g <= MaxRoot /\ q * n <= (MaxRoot * MaxRoot) \div (g * g)
                    THEN Isqrt(g * g * q * n) \div (n * n)
                    ELSE (g * Isqrt(q * n)) \div (n * n)

VolatilityCall(historicalScores) ==
    [fn |-> "calculateVolatility", pc |-> "call",
     historicalScores |-> historicalScores, result |-> 0]

VolatilityReturn ==
    /\ call.fn = "calculateVolatility" /\ call.pc = "call"
    /\ call' = [call EXCEPT !.result = calculateVolatility(call.historicalScores),
                            !.pc = "return"]
    /\ UNCHANGED <<now, sideVars, cacheVars, storeVars, rcVars>>

\* ------------------------------- calculatePropagatedInfluence, step by step
\* The same function with its loops unrolled into steps: `call` holds the
\* arguments, the locals of calculatePropagatedInfluence (adjacencyList, results,
\* the index i of its for loop) and of the propagateFromNode call in progress
\* (queue, paths, propagatedInfluence).
NoCall == [fn |-> "none", pc |-> "none"]

PropagationCall(edgeSeq, nodeIds, maxDepth, decayFactor) ==
    [fn |-> "calculatePropagatedInfluence", pc |-> "call",
     edges |-> edgeSeq, nodeIds |-> nodeIds,
     maxDepth |-> maxDepth, decayFactor |-> decayFactor,
     adjacencyList |-> << >>, results |-> << >>, i |-> 0,
     queue |-> << >>, paths |-> << >>, propagatedInfluence |-> 0]

engineUnchanged == UNCHANGED <<now, sideVars, cacheVars, storeVars, rcVars>>

\* const adjacencyList = buildAdjacencyList(edges)
CpiBuild ==
    /\ call.fn = "calculatePropagatedInfluence" /\ call.pc = "call"
    /\ call' = [call EXCEPT !.adjacencyList = buildAdjacencyList(call.edges),
                            !.pc = "for"]
    /\ engineUnchanged

\* for (const nodeId of nodeIds): enter propagateFromNode, or return results.
CpiFor ==
    /\ call.fn = "calculatePropagatedInfluence" /\ call.pc = "for"
    /\ IF call.i < Len(call.nodeIds)
       THEN call' = [call EXCEPT
                !.queue = <<[nodeId |-> call.nodeIds[call.i + 1],
                             weight |-> Scale,
                             path |-> <<call.nodeIds[call.i + 1]>>,
                             depth |-> 0]>>,
                !.paths = << >>, !.propagatedInfluence = 0, !.pc = "while"]
       ELSE call' = [call EXCEPT !.pc = "return"]
    /\ engineUnchanged

\* One iteration of while (queue.length > 0).
PfnWhile ==
    /\ call.fn = "calculatePropagatedInfluence" /\ call.pc = "while"
    /\ call.queue # << >>
    /\ LET current == Head(call.queue)
           acc == Record([paths |-> call.paths,
                          propagatedInfluence |-> call.propagatedInfluence],
                         current)
       IN call' = [call EXCEPT
              !.paths = acc.paths,
              !.propagatedInfluence = acc.propagatedInfluence,
              !.queue =
                  IF AtMaxDepth(current.depth, call.maxDepth)
                  THEN Tail(call.queue)
                  ELSE Tail(call.queue) \o
                       Expand(current,
                              Neighbors(call.adjacencyList, current.nodeId),
                              call.decayFactor)]
    /\ engineUnchanged

\* The queue is empty: propagateFromNode returns, results.set(nodeId, result).
PfnReturn ==
    /\ call.fn = "calculatePropagatedInfluence" /\ call.pc = "while"
    /\ call.queue = << >>
    /\ LET sourceId == call.nodeIds[call.i + 1]
           directInfluence == DirectInfluence(call.adjacencyList, sourceId)
           result == [nodeId |-> sourceId,
                      directInfluence |-> directInfluence,
                      propagatedInfluence |-> call.propagatedInfluence,
                      totalInfluence |->
                          directInfluence + call.propagatedInfluence,
                      paths |-> call.paths]
       IN call' = [call EXCEPT
              !.results = [n \in DOMAIN call.results \cup {sourceId} |->
                              IF n = sourceId THEN result ELSE call.results[n]],
              !.i = call.i + 1, !.pc = "for"]
    /\ engineUnchanged

\* --------------------------------------------------------- aggregation
\* The comparator of findTopInfluencers orders b before a where this number is
\* higher for b: 'direct' reads score, 'propagated' rawScore - score,
\* 'volatility' volatility and every other metric ('total') rawScore.
MetricKey(node, metric) ==
    CASE metric = "direct" -> node.score
      [] metric = "propagated" -> node.rawScore - node.score
      [] metric = "volatility" -> node.volatility
      [] OTHER -> node.rawScore

RECURSIVE InsertBeforeTies(_, _, _)
InsertBeforeTies(sorted, x, metric) ==
    IF sorted = << >> THEN <<x>>
    ELSE IF MetricKey(Head(sorted), metric) > MetricKey(x, metric)
         THEN <<Head(sorted)>> \o InsertBeforeTies(Tail(sorted), x, metric)
         ELSE <<x>> \o sorted

\* Array.prototype.sort is stable: x goes behind every element that the
\* comparator does not order after it.
RECURSIVE InsertByMetric(_, _, _)
InsertByMetric(sorted, x, metric) ==
    IF sorted = << >> THEN <<x>>
    ELSE IF MetricKey(Head(sorted), metric) >= MetricKey(x, metric)
         THEN <<Head(sorted)>> \o InsertByMetric(Tail(sorted), x, metric)
         ELSE <<x>> \o sorted

RECURSIVE SortByMetric(_, _)
SortByMetric(nodes, metric) ==
    IF nodes = << >> THEN << >>
    ELSE InsertByMetric(SortByMetric(SubSeq(nodes, 1, Len(nodes) - 1), metric),
                        nodes[Len(nodes)], metric)

\* [...nodes].sort(...).slice(0, limit), limit >= 0
findTopInfluencers(nodes, metric, limit) ==
    SubSeq(SortByMetric(nodes, metric), 1, Min(limit, Len(nodes)))

\* A call of findTopInfluencers: `nodes` is the caller's array, `input` what
\* it held when the call was made.
TopCall(nodes, metric, limit) ==
    [fn |-> "findTopInfluencers", pc |-> "call", nodes |-> nodes,
     input |-> nodes, metric |-> metric, limit |-> limit, result |-> << >>]

\* The sort works on the copy [...nodes]: the caller's array is not written.
TopReturn ==
    /\ call.fn = "findTopInfluencers" /\ call.pc = "call"
    /\ call' = [call EXCEPT
           !.result = findTopInfluencers(call.nodes, call.metric, call.limit),
           !.pc = "return"]
    /\ UNCHANGED <<now, sideVars, cacheVars, storeVars, rcVars>>

\* A node without department: departmentId undefined (or empty).
NoDepartment == ""

\* nodeDepartments: node id -> departmentId, for the nodes that have one; of
\* two nodes with one id the later one sets the entry.
RECURSIVE NodeDepartments(_)
NodeDepartments(nodes) ==
    IF nodes = << >> THEN << >>
    ELSE LET rest == NodeDepartments(SubSeq(nodes, 1, Len(nodes) - 1))
             node == nodes[Len(nodes)]
         IN IF node.departmentId = NoDepartment THEN rest
            ELSE [n \in DOMAIN rest \cup {node.id} |->
                     IF n = node.id THEN node.departmentId ELSE rest[n]]

\* nodeDepartments.get(id), NoDepartment for undefined
DepartmentOf(nodeDepartments, id) ==
    IF id \in DOMAIN nodeDepartments THEN nodeDepartments[id] ELSE NoDepartment

AnyDepartments(sourceDept, targetDept) ==
    sourceDept # NoDepartment /\ targetDept # NoDepartment

\* sourceDept && targetDept && sourceDept !== targetDept
CrossDepartment(sourceDept, targetDept) ==
    /\ sourceDept # NoDepartment
    /\ targetDept # NoDepartment
    /\ sourceDept # targetDept

\* matrix.get(sourceDept).set(targetDept, (current || 0) + weight)
AddToMatrix(matrix, sourceDept, targetDept, weight) ==
    LET row == IF sourceDept \in DOMAIN matrix THEN matrix[sourceDept] ELSE << >>
        currentWeight == IF targetDept \in DOMAIN row THEN row[targetDept] ELSE 0
        newRow == [d \in DOMAIN row \cup {targetDept} |->
                      IF d = targetDept THEN currentWeight + weight ELSE row[d]]
    IN [d \in DOMAIN matrix \cup {sourceDept} |->
           IF d = sourceDept THEN newRow ELSE matrix[d]]

\* The loop over the edges.
RECURSIVE MatrixOfEdges(_, _)
MatrixOfEdges(edgeSeq, nodeDepartments) ==
    IF edgeSeq = << >> THEN << >>
    ELSE LET matrix == MatrixOfEdges(SubSeq(edgeSeq, 1, Len(edgeSeq) - 1),
                                     nodeDepartments)
             edge == edgeSeq[Len(edgeSeq)]
             sourceDept == DepartmentOf(nodeDepartments, edge.sourceUserId)
             targetDept == DepartmentOf(nodeDepartments, edge.targetUserId)
         IN IF CrossDepartment(sourceDept, targetDept)
            THEN AddToMatrix(matrix, sourceDept, targetDept, edge.weight)
            ELSE matrix

calculateDepartmentInfluenceMatrix(edgeSeq, nodes) ==
    MatrixOfEdges(edgeSeq, NodeDepartments(nodes))

MatrixCall(edgeSeq, nodes) ==
    [fn |-> "calculateDepartmentInfluenceMatrix", pc |-> "call",
     edges |-> edgeSeq, nodes |-> nodes, result |-> << >>]

MatrixReturn ==
    /\ call.fn = "calculateDepartmentInfluenceMatrix" /\ call.pc = "call"
    /\ call' = [call EXCEPT
           !.result = calculateDepartmentInfluenceMatrix(call.edges, call.nodes),
           !.pc = "return"]
    /\ UNCHANGED <<now, sideVars, cacheVars, storeVars, rcVars>>

\* ------------------------------------------ detectCommunities, step by step
MAX_ITERATIONS == 10

\* labels.get(id) || 0
LabelOf(labels, id) == IF id \in DOMAIN labels THEN labels[id] ELSE 0

\* labelCounts.set(label, (labelCounts.get(label) || 0) + weight); a Map keeps
\* its keys in the order of their first set, so labelCounts is a sequence.
AddCount(labelCounts, label, weight) ==
    IF \E k \in DOMAIN labelCounts : labelCounts[k].label = label
    THEN [k \in DOMAIN labelCounts |->
             IF labelCounts[k].label = label
             THEN [label |-> label, count |-> labelCounts[k].count + weight]
             ELSE labelCounts[k]]
    ELSE Append(labelCounts, [label |-> label, count |-> weight])

RECURSIVE LabelCounts(_, _)
LabelCounts(neighbors, labels) ==
    IF neighbors = << >> THEN << >>
    ELSE LET edge == neighbors[Len(neighbors)]
         IN AddCount(LabelCounts(SubSeq(neighbors, 1, Len(neighbors) - 1), labels),
                     LabelOf(labels, edge.targetUserId), edge.weight)

\* labelCounts.forEach: if (count > maxCount) { maxCount = count; bestLabel = label }
RECURSIVE MostFrequent(_, _, _)
MostFrequent(labelCounts, maxCount, bestLabel) ==
    IF labelCounts = << >> THEN bestLabel
    ELSE IF Head(labelCounts).count > maxCount
         THEN MostFrequent(Tail(labelCounts), Head(labelCounts).count,
                           Head(labelCounts).label)
         ELSE MostFrequent(Tail(labelCounts), maxCount, bestLabel)

\* The label a visit of nodeId arrives at.
BestLabel(nodeId, adjacencyList, labels) ==
    MostFrequent(LabelCounts(Neighbors(adjacencyList, nodeId), labels), 0,
                 LabelOf(labels, nodeId))

NoVisit == [nodeId |-> "", labels |-> << >>, changed |-> FALSE]

CommunityCall(edgeSeq, nodeIds) ==
    [fn |-> "detectCommunities", pc |-> "call", edges |-> edgeSeq,
     nodeIds |-> nodeIds, adjacencyList |-> << >>, labels |-> << >>,
     iter |-> 0, k |-> 0, changed |-> FALSE, visit |-> NoVisit,
     start |-> << >>]            \* history: the labels the iteration began with

\* nodeIds.forEach((id, idx) => labels.set(id, idx))
InitialLabels(nodeIds) ==
    [n \in {nodeIds[i] : i \in DOMAIN nodeIds} |->
        (CHOOSE i \in DOMAIN nodeIds :
             /\ nodeIds[i] = n
             /\ \A j \in DOMAIN nodeIds : nodeIds[j] = n => j <= i) - 1]

\* buildAdjacencyList, and a label of its own for each node.
DcStart ==
    /\ call.fn = "detectCommunities" /\ call.pc = "call"
    /\ call' = [call EXCEPT
           !.adjacencyList = buildAdjacencyList(call.edges),
           !.labels = InitialLabels(call.nodeIds),
           !.start = InitialLabels(call.nodeIds),
           !.pc = "for"]
    /\ UNCHANGED <<now, sideVars, cacheVars, storeVars, rcVars>>

\* The body of for (const nodeId of nodeIds) for the next node; `visit` keeps
\* the node, the labels it found and whether it set `changed`.
DcVisit ==
    /\ call.fn = "detectCommunities" /\ call.pc = "for"
    /\ call.k < Len(call.nodeIds)
    /\ LET nodeId == call.nodeIds[call.k + 1]
           bestLabel == BestLabel(nodeId, call.adjacencyList, call.labels)
           relabel == /\ Neighbors(call.adjacencyList, nodeId) # << >>
                      /\ call.labels[nodeId] # bestLabel
       IN call' = [call EXCEPT
              !.labels = IF relabel THEN [@ EXCEPT ![nodeId] = bestLabel] ELSE @,
              !.changed = @ \/ relabel,
              !.k = @ + 1,
              !.visit = [nodeId |-> nodeId, labels |-> call.labels,
                         changed |-> relabel]]
    /\ UNCHANGED <<now, sideVars, cacheVars, storeVars, rcVars>>

\* The end of an iteration: if (!changed) break, or the next iteration, up to
\* maxIterations of them.
DcEndIteration ==
    /\ call.fn = "detectCommunities" /\ call.pc = "for"
    /\ call.k = Len(call.nodeIds)
    /\ IF ~call.changed \/ call.iter + 1 >= MAX_ITERATIONS
       THEN call' = [call EXCEPT !.pc = "return"]
       ELSE call' = [call EXCEPT !.iter = @ + 1, !.k = 0, !.changed = FALSE,
                                 !.start = call.labels]
    /\ UNCHANGED <<now, sideVars, cacheVars, storeVars, rcVars>>

\* ----------------------------------------------------------------- store
UserSeq == <<"X", "Y">>                   \* db.user rows, in the store's order
Users == {UserSeq[i] : i \in DOMAIN UserSeq}
EdgeIds == {1, 2}
EventIds == {1, 2}
NoRow == [none |-> TRUE]
NoEdge == [none |-> TRUE]
NoEvent == [none |-> TRUE]
Never == -1                               \* processedAt: null

RECURSIVE SeqOfSet(_)
\* The members of a set of numbers in ascending order (the store's row order).
SeqOfSet(S) ==
    IF S = {} THEN << >>
    ELSE LET m == CHOOSE x \in S : \A y \in S : x <= y
         IN <<m>> \o SeqOfSet(S \ {m})

\* db.influenceEdge.findMany({ where: { organizationId, isActive: true } })
FindActiveEdges(edgeStore, organizationId) ==
    LET ids == SeqOfSet({id \in EdgeIds :
                    /\ edgeStore[id] # NoEdge
                    /\ edgeStore[id].organizationId = organizationId
                    /\ edgeStore[id].isActive})
    IN [i \in DOMAIN ids |-> [id |-> ids[i]] @@ edgeStore[ids[i]]]

\* db.influenceEvent.findMany({ where: { organizationId, processedAt: null } })
FindPendingEvents(eventStore, organizationId) ==
    LET ids == SeqOfSet({id \in EventIds :
                    /\ eventStore[id] # NoEvent
                    /\ eventStore[id].organizationId = organizationId
                    /\ eventStore[id].processedAt = Never})
    IN [i \in DOMAIN ids |->
           [id |-> ids[i], subjectUserId |-> eventStore[ids[i]].subjectUserId,
            weightDelta |-> eventStore[ids[i]].weightDelta]]

\* user.outgoingInfluence: { where: { isActive: true } } of one user
OutgoingInfluence(edgeStore, userId) ==
    LET ids == SeqOfSet({id \in EdgeIds :
                    /\ edgeStore[id] # NoEdge
                    /\ edgeStore[id].sourceUserId = userId
                    /\ edgeStore[id].isActive})
    IN [i \in DOMAIN ids |-> edgeStore[ids[i]]]

\* db.user.findMany({ where: { organizationId, isActive: true }, include: ... })
FindActiveUsers(userStore, scoreStore, edgeStore, organizationId) ==
    LET act == SelectSeq(UserSeq, LAMBDA u :
                   /\ userStore[u].organizationId = organizationId
                   /\ userStore[u].isActive)
    IN [i \in DOMAIN act |->
           [id |-> act[i],
            influenceScores |-> IF scoreStore[act[i]] = NoRow THEN << >>
                                ELSE <<scoreStore[act[i]]>>,
            outgoingInfluence |-> OutgoingInfluence(edgeStore, act[i])]]

\* db.influenceScore.findMany({ where: { userId: { in: userIds } }, take: 30 })
HISTORY_TAKE == 30
FindHistoricalScores(scoreStore, userIds) ==
    LET rows == SelectSeq(UserSeq, LAMBDA u :
                    /\ u \in {userIds[i] : i \in DOMAIN userIds}
                    /\ scoreStore[u] # NoRow)
        all == [i \in DOMAIN rows |->
                   [userId |-> rows[i], score |-> scoreStore[rows[i]].score]]
    IN SubSeq(all, 1, Min(HISTORY_TAKE, Len(all)))

\* --------------------------------------------------- recalculation route
\* Step 4: the edges as the engine sees them.
TypedEdges(edgeSeq, applyDecay, t) ==
    [i \in DOMAIN edgeSeq |->
        [id |-> edgeSeq[i].id,
         sourceUserId |-> edgeSeq[i].sourceUserId,
         targetUserId |-> edgeSeq[i].targetUserId,
         weight |-> IF applyDecay
                    THEN calculateDecayedWeight(edgeSeq[i].weight,
                                                edgeSeq[i].createdAt, t)
                    ELSE edgeSeq[i].weight,
         createdAt |-> edgeSeq[i].createdAt]]

\* Step 6: eventImpact.get(userId) || 0, in whole units.
EventImpact(eventSeq, userId) ==
    SumSeq([i \in DOMAIN eventSeq |->
               IF eventSeq[i].subjectUserId = userId
               THEN eventSeq[i].weightDelta ELSE 0])

NewScoreNoFloor(directInfluence, propagatedInfluence, eventBonus) ==
    directInfluence + propagatedInfluence + eventBonus
\* Math.max(0, directInfluence + propagatedInfluence + eventBonus)
NewScore(directInfluence, propagatedInfluence, eventBonus) ==
    Max(0, directInfluence + propagatedInfluence + eventBonus)

\* scoresWithIds.sort((a, b) => b.newScore - a.newScore): stable, descending.
RECURSIVE InsertDesc(_, _)
InsertDesc(sorted, x) ==
    IF sorted = << >> THEN <<x>>
    ELSE IF Head(sorted).newScore >= x.newScore
         THEN <<Head(sorted)>> \o InsertDesc(Tail(sorted), x)
         ELSE <<x>> \o sorted
RECURSIVE SortDesc(_)
SortDesc(s) ==
    IF s = << >> THEN << >>
    ELSE InsertDesc(SortDesc(SubSeq(s, 1, Len(s) - 1)), s[Len(s)])

\* Steps 4 to 7 and the sort: scoresWithIds, sorted for ranking.
ScoresWithIds(userSnaps, edgeSeq, eventSeq, applyDecay, t) ==
    LET propagationResults ==
            calculatePropagatedInfluence(
                TypedEdges(edgeSeq, applyDecay, t),
                [i \in DOMAIN userSnaps |-> userSnaps[i].id],
                MAX_DEPTH, DECAY_FACTOR)
        one(user) ==
            LET out == user.outgoingInfluence
                directInfluence ==
                    Scale * SumSeq([i \in DOMAIN out |->
                        IF applyDecay
                        THEN calculateDecayedWeight(out[i].weight,
                                                    out[i].createdAt, t)
                        ELSE out[i].weight])
                propagated == propagationResults[user.id].propagatedInfluence
                eventBonus == Scale * EventImpact(eventSeq, user.id)
            IN [id |-> user.id,
                currentScore |-> IF user.influenceScores = << >> THEN 0
                                 ELSE user.influenceScores[1].score,
                newScore |-> NewScore(directInfluence, propagated, eventBonus),
                directInfluence |-> directInfluence,
                propagatedInfluence |-> propagated,
                eventBonus |-> eventBonus]
    IN SortDesc([i \in DOMAIN userSnaps |-> one(userSnaps[i])])

\* The row the update loop writes at 0-based position i.
ScoreRow(scoresWithIds, i, historicalScores, t) ==
    LET scoreData == scoresWithIds[i + 1]
        mine == SelectSeq(historicalScores, LAMBDA s : s.userId = scoreData.id)
        userHistory == <<scoreData.newScore>> \o
                           [j \in DOMAIN mine |-> mine[j].score]
    IN [score |-> scoreData.newScore,
        rawScore |-> scoreData.directInfluence,
        volatility |->
            calculateVolatility(SubSeq(userHistory, 1, Min(10, Len(userHistory)))),
        rank |-> i + 1,
        calculatedAt |-> t]

\* db.influenceScore.updateMany({ where: { userId, scoreType: 'TOTAL' }, data })
UpdateScore(scoreStore, userId, row) ==
    IF scoreStore[userId] = NoRow THEN scoreStore
    ELSE [scoreStore EXCEPT ![userId] = row]

\* Step 9: the four deletePattern calls.
InvalidatePatterns(organizationId) ==
    <<graph(organizationId) \o <<"*">>,
      influenceScores(organizationId) \o <<"*">>,
      analytics(organizationId) \o <<"*">>,
      <<"top", ":">> \o organizationId \o <<"*">>>>

RECURSIVE DeletePatterns(_, _)
DeletePatterns(c, patterns) ==
    IF patterns = << >> THEN c
    ELSE DeletePatterns(Remove(c, PatternKeys(Head(patterns), DOMAIN c)),
                        Tail(patterns))

Idle == [pc |-> "idle", organizationId |-> OrgA, applyDecay |-> FALSE,
         processEvents |-> FALSE, edges |-> << >>, events |-> << >>,
         scoresWithIds |-> << >>, historicalScores |-> << >>, i |-> 0, n |-> 0]
NoLast == [ok |-> FALSE, processEvents |-> FALSE, edges |-> << >>,
           events |-> << >>, scores |-> << >>]
NoBase == [scores |-> << >>, events |-> << >>, edges |-> << >>, t |-> 0,
           applyDecay |-> FALSE, processEvents |-> FALSE, retried |-> FALSE]

\* POST /api/influence/recalculate, body { organizationId, applyDecay,
\* processEvents } (a body without organizationId is answered 400 and changes
\* nothing).  The steps below are those of the request that is running; RcYield
\* lets the other request run.
RcStart(organizationId, applyDecay, processEvents) ==
    /\ rc.pc \in {"idle", "done", "failed"}
    /\ rc.n < MaxCycles
    /\ rc' = [Idle EXCEPT !.pc = "loadEdges", !.organizationId = organizationId,
                          !.applyDecay = applyDecay,
                          !.processEvents = processEvents, !.n = rc.n + 1]
    /\ folded' = {}
    /\ last' = IF rc.pc = "done"
               THEN [ok |-> TRUE, processEvents |-> rc.processEvents,
                     edges |-> rc.edges, events |-> rc.events, scores |-> scores]
               ELSE NoLast
    /\ base' = IF /\ rc.pc = "failed"
                  /\ base.applyDecay = applyDecay
                  /\ base.processEvents = processEvents
                  /\ base.t = now /\ base.events = events /\ base.edges = edges
               THEN [base EXCEPT !.retried = TRUE]
               ELSE [scores |-> scores, events |-> events, edges |-> edges,
                     t |-> now, applyDecay |-> applyDecay,
                     processEvents |-> processEvents, retried |-> FALSE]
    /\ UNCHANGED <<now, sideVars, call, cacheVars, storeVars>>

\* Step 1
RcLoadEdges ==
    /\ rc.pc = "loadEdges"
    /\ rc' = [rc EXCEPT !.pc = "loadEvents",
                        !.edges = FindActiveEdges(edges, rc.organizationId)]
    /\ UNCHANGED <<now, sideVars, call, cacheVars, storeVars, folded, last, base>>

\* Step 2
RcLoadEvents ==
    /\ rc.pc = "loadEvents"
    /\ rc' = [rc EXCEPT !.pc = "loadUsers",
                        !.events = IF rc.processEvents
                                   THEN FindPendingEvents(events, rc.organizationId)
                                   ELSE << >>]
    /\ UNCHANGED <<now, sideVars, call, cacheVars, storeVars, folded, last, base>>

\* Step 3, then steps 4 to 7 and the sort, which run before the next await.
RcLoadUsers ==
    /\ rc.pc = "loadUsers"
    /\ rc' = [rc EXCEPT
                !.pc = "loadHistory",
                !.scoresWithIds =
                    ScoresWithIds(FindActiveUsers(users, scores, edges,
                                                  rc.organizationId),
                                  rc.edges, rc.events, rc.applyDecay, now)]
    /\ UNCHANGED <<now, sideVars, call, cacheVars, storeVars, folded, last, base>>

\* Where the request goes once the update loop has no row left to write.
AfterScores(r) == IF Len(r.events) > 0 THEN "markEvents" ELSE "invalidate"

\* The historical scores for volatility.
RcLoadHistory ==
    /\ rc.pc = "loadHistory"
    /\ rc' = [rc EXCEPT
                !.pc = IF Len(rc.scoresWithIds) > 0 THEN "persist"
                       ELSE AfterScores(rc),
                !.historicalScores =
                    FindHistoricalScores(scores,
                        [i \in DOMAIN rc.scoresWithIds |-> rc.scoresWithIds[i].id])]
    /\ UNCHANGED <<now, sideVars, call, cacheVars, storeVars, folded, last, base>>

\* One pass of the update loop.
RcPersist ==
    /\ rc.pc = "persist"
    /\ LET userId == rc.scoresWithIds[rc.i + 1].id IN
        /\ scores' = UpdateScore(scores, userId,
                         ScoreRow(rc.scoresWithIds, rc.i, rc.historicalScores, now))
        /\ folded' = IF scores[userId] = NoRow THEN folded
                     ELSE folded \cup {rc.events[j].id : j \in
                              {j \in DOMAIN rc.events :
                                  rc.events[j].subjectUserId = userId}}
    /\ rc' = [rc EXCEPT !.i = @ + 1,
                        !.pc = IF rc.i + 1 < Len(rc.scoresWithIds) THEN "persist"
                               ELSE AfterScores(rc)]
    /\ UNCHANGED <<now, sideVars, call, cacheVars, users, edges, events, last, base>>

\* Step 8
RcMarkEvents ==
    /\ rc.pc = "markEvents"
    /\ events' = [id \in EventIds |->
                    IF id \in {rc.events[j].id : j \in DOMAIN rc.events}
                       /\ events[id] # NoEvent
                    THEN [events[id] EXCEPT !.processedAt = now]
                    ELSE events[id]]
    /\ rc' = [rc EXCEPT !.pc = "invalidate"]
    /\ UNCHANGED <<now, sideVars, call, cacheVars, users, scores, edges, folded, last, base>>

\* Step 9 and the response.
RcInvalidate ==
    /\ rc.pc = "invalidate"
    /\ cache' = DeletePatterns(cache, InvalidatePatterns(rc.organizationId))
    /\ rc' = [rc EXCEPT !.pc = "done"]
    /\ UNCHANGED <<now, sideVars, call, stats, ret, written, stale, storeVars, folded, last, base>>

RcFailThenInvalidate ==
    /\ rc.pc \in {"loadEdges", "loadEvents", "loadUsers", "loadHistory",
                  "persist", "markEvents"}
    /\ rc' = [rc EXCEPT !.pc = "failed"]
    /\ cache' = DeletePatterns(cache, InvalidatePatterns(rc.organizationId))
    /\ UNCHANGED <<now, sideVars, call, stats, ret, written, stale, storeVars,
                   folded, last, base>>

\* A store call rejects: the catch block answers 500.
RcFail ==
    /\ rc.pc \in {"loadEdges", "loadEvents", "loadUsers", "loadHistory",
                  "persist", "markEvents"}
    /\ rc' = [rc EXCEPT !.pc = "failed"]
    /\ UNCHANGED <<now, sideVars, call, cacheVars, storeVars, folded, last, base>>

RcYieldWhenFinished ==
    /\ rc.pc \in {"idle", "done", "failed"}
    /\ inflight # NoRequest
    /\ rc' = inflight.rc
    /\ folded' = inflight.folded
    /\ inflight' = [rc |-> rc, folded |-> folded]
    /\ UNCHANGED <<now, cleanupInterval, call, cacheVars, storeVars, last, base>>

\* An await of the handler: the request is suspended where it stands and the
\* other request, new or suspended at an await of its own, is the one that runs
\* next.  The handler takes no lock and asks for none: nothing is tested.
RcYield ==
    /\ inflight # NoRequest
    /\ rc' = inflight.rc
    /\ folded' = inflight.folded
    /\ inflight' = [rc |-> rc, folded |-> folded]
    /\ UNCHANGED <<now, cleanupInterval, call, cacheVars, storeVars, last, base>>

\* ----------------------------------------------------------------- routes
\* Requests to /api/influence, /api/analytics and /api/projects, each handled
\* without another request in between.  A cached response is held as its kind:
\* the store rows it was computed from are not kept, `stale` records instead
\* which entries were stored before the last mutation of their tenant.
Missing == "missing"                     \* an absent string field of a body
Absent == << >>                          \* an absent number or tenant id: a
Given(x) == <<x>>                        \* number that is given is <<n>>
MaxStoredEdges == 1                      \* edges in the store of this specification
GRAPH_TTL == 1                           \* 60000 ms, one tick being a minute here
ANALYTICS_TTL == 2                       \* 120000 ms
AnalyticsTypes == {<<"overview">>}
RouteWeights == {Given(-10), Given(50), Given(150)}
RouteEdgeIds == {Given(id) : id \in EdgeIds}
ProjectOrg == OrgA                       \* the one project's tenant
ProjectMembers == <<"X">>                \* its members, all of role MEMBER
PROJECT_SUCCESS == 15                    \* baseMultipliers.PROJECT_SUCCESS

TopLimits == {1, 2}                      \* limit parameters of type=top
\* score, rawScore and volatility of a user without a TOTAL row: || 0
ZeroScores == [score |-> 0, rawScore |-> 0, volatility |-> 0]

AnalyticsKey(orgId, type) == analytics(orgId \o <<":">> \o type)
\* The cache keys the graph view and the analytics of a tenant are served from.
ViewKeys(orgId) ==
    {graph(orgId)} \cup {AnalyticsKey(orgId, type) : type \in AnalyticsTypes}

\* A cached response as a route tests it: if (cached).
Truthy(value) == value # Null

Response(op, key, fromCache, status) ==
    [NoRet EXCEPT !.op = op, !.key = key, !.flag = fromCache, !.count = status]

\* A read route: the cache lookup, and on a miss the store read and the set.
ReadThrough(op, key, value, ttlMs) ==
    LET r == GetResult(cache, stats, key, now) IN
    /\ stats' = r.stats
    /\ IF Truthy(r.val)
       THEN /\ cache' = r.cache
            /\ stale' = stale \cap DOMAIN r.cache
            /\ ret' = [Response(op, key, TRUE, 200) EXCEPT !.val = r.val]
       ELSE /\ cache' = Store(r.cache, key, value, ttlMs, now)
            /\ stale' = stale \ {key}
            /\ ret' = [Response(op, key, FALSE, 200) EXCEPT !.val = value]
    /\ UNCHANGED <<now, sideVars, call, written, storeVars, rcVars>>

\* GET /api/influence?organizationId=..&propagation=.. (the full graph view)
GetGraph(organizationId, includePropagation) ==
    /\ Lookups < MaxLookups
    /\ ReadThrough("GET influence", graph(organizationId),
                   IF includePropagation THEN "graph+propagation" ELSE "graph",
                   GRAPH_TTL)

\* What the two findMany calls of the graph view return: the tenant's active
\* edges, and its active users with their TOTAL score row.
GraphView(edgeStore, userStore, scoreStore, organizationId) ==
    [edges |-> FindActiveEdges(edgeStore, organizationId),
     users |-> FindActiveUsers(userStore, scoreStore, edgeStore, organizationId)]

\* The same request with its awaits as steps.  First the cache lookup: a hit is
\* answered, a miss goes on to the store.
GetGraphLookup(organizationId, includePropagation) ==
    /\ inflight = NoRequest
    /\ Lookups < MaxLookups
    /\ LET key == graph(organizationId)
           r == GetResult(cache, stats, key, now)
       IN /\ stats' = r.stats
          /\ cache' = r.cache
          /\ IF Truthy(r.val)
             THEN /\ stale' = stale \cap DOMAIN r.cache
                  /\ ret' = [Response("GET influence", key, TRUE, 200) EXCEPT
                                !.val = r.val]
                  /\ inflight' = inflight
             ELSE /\ stale' = stale
                  /\ ret' = ret
                  /\ inflight' = [pc |-> "read", organizationId |-> organizationId,
                                  includePropagation |-> includePropagation,
                                  key |-> key, view |-> << >>]
    /\ UNCHANGED <<now, cleanupInterval, call, written, storeVars, rcVars>>

\* await Promise.all([db.influenceEdge.findMany, db.user.findMany])
GetGraphRead ==
    /\ inflight.pc = "read"
    /\ inflight' = [inflight EXCEPT
           !.pc = "set",
           !.view = GraphView(edges, users, scores, inflight.organizationId)]
    /\ UNCHANGED <<now, cleanupInterval, call, cacheVars, storeVars, rcVars>>

\* The rows read are not the rows of the store any more, through an edge
\* request (which has deleted its cache keys by then) or through a
\* recalculation that is done.
Outdated(request) ==
    LET view == GraphView(edges, users, scores, request.organizationId)
    IN \/ request.view.edges # view.edges
       \/ (request.view.users # view.users /\ rc.pc = "done")

\* The response is built from the rows read, stored under the key and sent.
GetGraphSet ==
    /\ inflight.pc = "set"
    /\ cache' = Store(cache, inflight.key,
                      IF inflight.includePropagation THEN "graph+propagation"
                      ELSE "graph",
                      GRAPH_TTL, now)
    /\ stale' = IF Outdated(inflight) THEN stale \cup {inflight.key}
                ELSE stale \ {inflight.key}
    /\ ret' = [Response("GET influence", inflight.key, FALSE, 200) EXCEPT
                  !.val = IF inflight.includePropagation THEN "graph+propagation"
                          ELSE "graph"]
    /\ inflight' = NoRequest
    /\ UNCHANGED <<now, cleanupInterval, call, stats, written, storeVars, rcVars>>

\* GET /api/analytics?organizationId=..&type=..
GetAnalytics(organizationId, type) ==
    /\ Lookups < MaxLookups
    /\ ReadThrough("GET analytics", AnalyticsKey(organizationId, type),
                   "analytics", ANALYTICS_TTL)

\* getTopInfluencers(organizationId, limit): the entries of its answer.
TopInfluencers(organizationId, limit) ==
    LET found == FindActiveUsers(users, scores, edges, organizationId)
        row(u) == IF u.influenceScores = << >> THEN ZeroScores
                  ELSE u.influenceScores[1]
        nodes == [i \in DOMAIN found |->
                     [id |-> found[i].id, score |-> row(found[i]).score,
                      rawScore |-> row(found[i]).rawScore,
                      volatility |-> row(found[i]).volatility]]
    IN findTopInfluencers(nodes, "total", limit)

\* The answer as the cache holds it: its kind and the number of its entries.
TopBody(entries) ==
    <<"top: no entry", "top: 1 entry", "top: 2 entries">>[Len(entries) + 1]

\* GET /api/analytics?organizationId=..&type=top&limit=..
GetTopInfluencers(organizationId, limit) ==
    /\ Lookups < MaxLookups
    /\ ReadThrough("GET analytics", AnalyticsKey(organizationId, <<"top">>),
                   TopBody(TopInfluencers(organizationId, limit)), ANALYTICS_TTL)

\* What a mutation of a tenant leaves of the history: every entry of the
\* tenant's views that is still in the cache predates the mutation.
StaleAfter(c, orgId) == (stale \cup ViewKeys(orgId)) \cap DOMAIN c

StoredEdgeIds == {id \in EdgeIds : edges[id] # NoEdge}

\* POST /api/influence
PostEdge(sourceUserId, targetUserId, organizationId, weight) ==
    LET op == "POST influence"
        bad == \/ Missing \in {sourceUserId, targetUserId}
               \/ organizationId = Absent
               \/ sourceUserId = targetUserId
               \/ (weight # Absent /\ (weight[1] < 0 \/ weight[1] > 100))
        reject(status) ==
            /\ ret' = [Response(op, << >>, FALSE, status) EXCEPT !.invalid = bad]
            /\ UNCHANGED <<now, sideVars, call, cache, stats, written, stale, storeVars, rcVars>>
    IN
    IF \/ Missing \in {sourceUserId, targetUserId}
       \/ organizationId = Absent
       \/ weight = Absent
    THEN reject(400)
    ELSE IF sourceUserId = targetUserId THEN reject(400)
    ELSE IF weight[1] < 0 \/ weight[1] > 100 THEN reject(400)
    ELSE IF \E id \in StoredEdgeIds :
                /\ edges[id].sourceUserId = sourceUserId
                /\ edges[id].targetUserId = targetUserId
                /\ edges[id].organizationId = organizationId
         THEN reject(409)
    ELSE /\ Cardinality(StoredEdgeIds) < MaxStoredEdges
         /\ LET id == CHOOSE i \in EdgeIds \ StoredEdgeIds :
                          \A j \in EdgeIds \ StoredEdgeIds : i <= j
                c == DeletePatterns(cache,
                         <<graph(organizationId) \o <<"*">>,
                           influenceScores(organizationId) \o <<"*">>>>)
            IN /\ edges' = [edges EXCEPT ![id] =
                               [sourceUserId |-> sourceUserId,
                                targetUserId |-> targetUserId,
                                organizationId |-> organizationId,
                                weight |-> weight[1], createdAt |-> now,
                                isActive |-> TRUE]]
               /\ cache' = c
               /\ stale' = StaleAfter(c, organizationId)
         /\ ret' = Response(op, << >>, FALSE, 201)
         /\ UNCHANGED <<now, sideVars, call, stats, written, users, scores, events, rcVars>>

\* PUT /api/influence, body { id, weight, isActive }: a field left out of the
\* body is left as it is in the row.
PutEdge(id, weight, isActive) ==
    LET op == "PUT influence"
        bad == \/ id = Absent
               \/ (weight # Absent /\ (weight[1] < 0 \/ weight[1] > 100))
        reject(status) ==
            /\ ret' = [Response(op, << >>, FALSE, status) EXCEPT !.invalid = bad]
            /\ UNCHANGED <<now, sideVars, call, cache, stats, written, stale, storeVars, rcVars>>
    IN
    IF id = Absent THEN reject(400)
    ELSE IF edges[id[1]] = NoEdge THEN reject(500)
    ELSE LET edge == [edges[id[1]] EXCEPT
                         !.weight = IF weight = Absent THEN @ ELSE weight[1],
                         !.isActive = IF isActive = Missing THEN @
                                      ELSE isActive = "true"]
             c == DeletePatterns(cache, <<graph(edge.organizationId) \o <<"*">>>>)
         IN /\ edges' = [edges EXCEPT ![id[1]] = edge]
            /\ cache' = c
            /\ stale' = StaleAfter(c, edge.organizationId)
            /\ ret' = [Response(op, << >>, FALSE, 200) EXCEPT !.invalid = bad]
            /\ UNCHANGED <<now, sideVars, call, stats, written, users, scores, events, rcVars>>

\* DELETE /api/influence?id=..
DeleteEdge(id) ==
    LET op == "DELETE influence"
        reject(status) ==
            /\ ret' = [Response(op, << >>, FALSE, status) EXCEPT
                          !.invalid = (id = Absent)]
            /\ UNCHANGED <<now, sideVars, call, cache, stats, written, stale, storeVars, rcVars>>
    IN
    IF id = Absent THEN reject(400)
    ELSE IF edges[id[1]] = NoEdge THEN reject(500)
    ELSE LET c == DeletePatterns(cache,
                      <<graph(edges[id[1]].organizationId) \o <<"*">>>>)
         IN /\ edges' = [edges EXCEPT ![id[1]] = NoEdge]
            /\ cache' = c
            /\ stale' = StaleAfter(c, edges[id[1]].organizationId)
            /\ ret' = Response(op, << >>, FALSE, 200)
            /\ UNCHANGED <<now, sideVars, call, stats, written, users, scores, events, rcVars>>

\* baseMultipliers[eventType] * impactScore
calculateInfluenceDelta(impactScore) == PROJECT_SUCCESS * impactScore

\* The events a completed project adds, one per member, under fresh ids.
RECURSIVE CreateEvents(_, _, _, _)
CreateEvents(eventStore, members, organizationId, delta) ==
    IF members = << >> THEN eventStore
    ELSE LET free == {id \in EventIds : eventStore[id] = NoEvent}
             id == CHOOSE i \in free : \A j \in free : i <= j
         IN CreateEvents(
                [eventStore EXCEPT ![id] =
                    [organizationId |-> organizationId,
                     subjectUserId |-> Head(members),
                     weightDelta |-> delta, processedAt |-> Never]],
                Tail(members), organizationId, delta)

\* PUT /api/projects, body { id, status, successScore } for the one project;
\* successScore is 0 or 1.
PutProject(status, successScore) ==
    IF status = "COMPLETED" /\ successScore > 0
    THEN /\ Cardinality({id \in EventIds : events[id] = NoEvent})
                >= Len(ProjectMembers)
         /\ events' = CreateEvents(events, ProjectMembers, ProjectOrg,
                                   calculateInfluenceDelta(successScore))
         /\ LET c == DeletePatterns(cache,
                         <<graph(ProjectOrg) \o <<"*">>,
                           influenceScores(ProjectOrg) \o <<"*">>>>)
            IN /\ cache' = c
               /\ stale' = StaleAfter(c, ProjectOrg)
         /\ ret' = Response("PUT projects", << >>, FALSE, 200)
         /\ UNCHANGED <<now, sideVars, call, stats, written, users, scores, edges, rcVars>>
    ELSE /\ ret' = Response("PUT projects", << >>, FALSE, 200)
         /\ UNCHANGED <<now, sideVars, call, cache, stats, written, stale, storeVars, rcVars>>

\* ---------------------------------------------------------- specifications
InitRecomputeIdle ==
    /\ call = NoCall
    /\ rc = Idle
    /\ folded = {}
    /\ last = NoLast
    /\ base = NoBase

\* A store with two active users of one tenant and nothing else in it.
InitStorePlain ==
    /\ users = [u \in Users |-> [organizationId |-> OrgA, isActive |-> TRUE]]
    /\ scores = [u \in Users |-> NoRow]
    /\ edges = [id \in EdgeIds |-> NoEdge]
    /\ events = [id \in EventIds |-> NoEvent]

InitCache ==
    /\ now = 0
    /\ cache = << >>
    /\ stats = [hits |-> 0, misses |-> 0]
    /\ ret = NoRet
    /\ written = << >>
    /\ stale = {}
    /\ inflight = NoRequest
    /\ cleanupInterval = Timer
    /\ InitStorePlain
    /\ InitRecomputeIdle

vars == <<now, cache, stats, ret, written, stale, call, users, scores, edges, events,
          rc, folded, last, base, inflight, cleanupInterval>>

CacheCall ==
    \/ \E k \in CacheOnlyKeys : get(k)
    \/ \E k \in CacheOnlyKeys, v \in Values, t \in Ttls : set(k, v, t)
    \/ \E k \in CacheOnlyKeys : has(k)
    \/ \E k \in CacheOnlyKeys : delete(k)
    \/ \E p \in CacheOnlyPatterns : deletePattern(p)
    \/ clear
    \/ \E k \in CacheOnlyKeys, v \in Values, t \in Ttls : getOrSet(k, v, t)
    \/ cleanup
    \/ getStats
    \/ destroy

NextCache ==
    \/ CacheCall /\ UNCHANGED <<stale, storeVars, rcVars, call>>
    \/ Tick

SpecCache == InitCache /\ [][NextCache]_vars

\* ------------------------------------------- deletePattern over many keys
\* Keys that requests and callers of the cache produce: the graph view of both
\* tenants, CacheKeys.graphEdges and influenceScores of tenant a, and the
\* analytics key of tenant ab for the request parameter type=graph:a
\* (CacheKeys.analytics(`${organizationId}:${type}`)).
PatternSpecKeys ==
    {graph(OrgA), graph(OrgB), graphEdges(OrgA), influenceScores(OrgA),
     analytics(OrgB \o <<":">> \o graph(OrgA)),
     topInfluencers(OrgA, <<"total">>)}
PatternSpecPatterns ==
    {graph(OrgA) \o <<"*">>, graph(OrgB) \o <<"*">>,
     influenceScores(OrgA) \o <<"*">>, graph(OrgA),
     <<"graph", ":", "*", ":", "a">>, <<"*">>}

InitPattern ==
    /\ now = 0
    /\ \E keys \in SUBSET PatternSpecKeys :
          cache = [k \in keys |-> [value |-> "v", expiresAt |-> 1, createdAt |-> 0]]
    /\ stats = [hits |-> 0, misses |-> 0]
    /\ ret = NoRet
    /\ written = << >>
    /\ stale = {}
    /\ inflight = NoRequest
    /\ cleanupInterval = Timer
    /\ InitStorePlain
    /\ InitRecomputeIdle

NextPattern ==
    /\ \E p \in PatternSpecPatterns : deletePattern(p)
    /\ UNCHANGED <<stale, storeVars, rcVars, call>>

SpecPattern == InitPattern /\ [][NextPattern]_vars

\* -------------------------------------------------- recalculation cycles
\* The cache as requests of both tenants and callers of CacheKeys left it.
FilledCacheKeys ==
    {graph(OrgA), graphEdges(OrgA), graphNodes(OrgA), influenceScores(OrgA),
     analytics(OrgA), analytics(OrgA \o <<":", "overview">>),
     topInfluencers(OrgA, <<"total">>), graph(OrgB)}
FilledCache ==
    [k \in FilledCacheKeys |-> [value |-> "v", expiresAt |-> 1, createdAt |-> 0]]

RcEdge(source, target, weight) ==
    [sourceUserId |-> source, targetUserId |-> target, organizationId |-> OrgA,
     weight |-> weight, createdAt |-> 0, isActive |-> TRUE]
RcEvent(subject, delta) ==
    [organizationId |-> OrgA, subjectUserId |-> subject, weightDelta |-> delta,
     processedAt |-> Never]
ZeroRow == [score |-> 0, rawScore |-> 0, volatility |-> 0, rank |-> 0,
            calculatedAt |-> 0]

InitRecompute ==
    /\ now \in 0..MaxAge
    /\ cache = FilledCache
    /\ stats = [hits |-> 0, misses |-> 0]
    /\ ret = NoRet
    /\ written = << >>
    /\ stale = {}
    /\ inflight = NoRequest
    /\ cleanupInterval = Timer
    /\ \E yActive \in BOOLEAN :
          users = [u \in Users |->
                     [organizationId |-> OrgA,
                      isActive |-> IF u = "Y" THEN yActive ELSE TRUE]]
    /\ \E yRow \in BOOLEAN :
          scores = [u \in Users |-> IF u = "Y" /\ ~yRow THEN NoRow ELSE ZeroRow]
    /\ \E e1 \in {NoEdge, RcEdge("X", "Y", 80)},
          e2 \in {NoEdge, RcEdge("Y", "X", 40)} :
          edges = [id \in EdgeIds |-> IF id = 1 THEN e1 ELSE e2]
    /\ \E v1 \in {NoEvent, RcEvent("X", 15)},
          v2 \in {NoEvent, RcEvent("Y", -15)} :
          events = [id \in EventIds |-> IF id = 1 THEN v1 ELSE v2]
    /\ InitRecomputeIdle

NextRecompute ==
    \/ \E applyDecay \in BOOLEAN, processEvents \in BOOLEAN :
          RcStart(OrgA, applyDecay, processEvents)
    \/ RcLoadEdges
    \/ RcLoadEvents
    \/ RcLoadUsers
    \/ RcLoadHistory
    \/ RcPersist
    \/ RcMarkEvents
    \/ RcInvalidate
    \/ RcFail

SpecRecompute == InitRecompute /\ [][NextRecompute]_vars

\* ----------------------------------------- two recalculation requests at once
\* Two POST /api/influence/recalculate requests of tenant a, one cycle each,
\* taking turns at their awaits, while projects of the tenant complete.
InitConcurrent ==
    /\ now = 0
    /\ cache = FilledCache
    /\ stats = [hits |-> 0, misses |-> 0]
    /\ ret = NoRet
    /\ written = << >>
    /\ stale = {}
    /\ cleanupInterval = Timer
    /\ call = NoCall
    /\ users = [u \in Users |-> [organizationId |-> OrgA, isActive |-> TRUE]]
    /\ scores = [u \in Users |-> ZeroRow]
    /\ \E e1 \in {NoEdge, RcEdge("X", "Y", 80)} :
          edges = [id \in EdgeIds |-> IF id = 1 THEN e1 ELSE NoEdge]
    /\ events = [id \in EventIds |-> NoEvent]
    /\ rc = [Idle EXCEPT !.n = MaxCycles - 1]
    /\ folded = {}
    /\ last = NoLast
    /\ base = NoBase
    /\ inflight = [rc |-> [Idle EXCEPT !.n = MaxCycles - 1], folded |-> {}]

NextConcurrent ==
    \/ \E processEvents \in BOOLEAN : RcStart(OrgA, FALSE, processEvents)
    \/ RcLoadEdges
    \/ RcLoadEvents
    \/ RcLoadUsers
    \/ RcLoadHistory
    \/ RcPersist
    \/ RcMarkEvents
    \/ RcInvalidate
    \/ RcFail
    \/ RcYield
    \/ \E st \in {"ACTIVE", "COMPLETED"} : PutProject(st, 1)

SpecConcurrent == InitConcurrent /\ [][NextConcurrent]_vars

\* --------------------------------- a graph view read among writing requests
\* GET /api/influence of tenant a, suspended at its awaits, while the edge
\* requests and the recalculation of the tenant run.
InitRace ==
    /\ now = 0
    /\ cache = << >>
    /\ stats = [hits |-> 0, misses |-> 0]
    /\ ret = NoRet
    /\ written = << >>
    /\ stale = {}
    /\ inflight = NoRequest
    /\ cleanupInterval = Timer
    /\ users = [u \in Users |-> [organizationId |-> OrgA, isActive |-> TRUE]]
    /\ scores = [u \in Users |-> ZeroRow]
    /\ \E e1 \in {NoEdge, RcEdge("X", "Y", 80)} :
          edges = [id \in EdgeIds |-> IF id = 1 THEN e1 ELSE NoEdge]
    /\ events = [id \in EventIds |-> NoEvent]
    /\ InitRecomputeIdle

NextRace ==
    \/ \E p \in BOOLEAN : GetGraphLookup(OrgA, p)
    \/ GetGraphRead
    \/ GetGraphSet
    \/ PostEdge("X", "Y", OrgA, Given(50))
    \/ \E id \in RouteEdgeIds : DeleteEdge(id)
    \/ RcStart(OrgA, FALSE, FALSE)
    \/ RcLoadEdges
    \/ RcLoadEvents
    \/ RcLoadUsers
    \/ RcLoadHistory
    \/ RcPersist
    \/ RcInvalidate

SpecRace == InitRace /\ [][NextRace]_vars

\* ------------------------------------------------- the propagation function
MaxDepthArg == 3                      \* maxDepth arguments are 0..MaxDepthArg
PropagationEdge(source, target, weight) ==
    [sourceUserId |-> source, targetUserId |-> target, weight |-> weight]
\* Edges an argument is drawn from: a chain A -> B -> C, the cycle it closes
\* (C -> A), a loop that loses nothing at decayFactor 1.0 (A -> A, 100), a
\* weight below the threshold's reach (A -> C, 1) and a second edge A -> B.
CandidateEdges ==
    <<PropagationEdge("A", "B", 80), PropagationEdge("B", "C", 50),
      PropagationEdge("C", "A", 80), PropagationEdge("A", "C", 1),
      PropagationEdge("A", "A", 100), PropagationEdge("A", "B", 50)>>
RECURSIVE Pick(_, _, _)
Pick(s, S, i) ==
    IF i > Len(s) THEN << >>
    ELSE (IF i \in S THEN <<s[i]>> ELSE << >>) \o Pick(s, S, i + 1)
EdgeLists == {Pick(CandidateEdges, S, 1) : S \in SUBSET (1..Len(CandidateEdges))}
NodeIdLists == {<< >>, <<"A">>, <<"D">>, <<"C", "D">>, <<"A", "B", "C">>}
DecayFactors == {DECAY_FACTOR, 10}    \* 0.6 and 1.0

InitPropagate ==
    /\ now = 0
    /\ cache = << >>
    /\ stats = [hits |-> 0, misses |-> 0]
    /\ ret = NoRet
    /\ written = << >>
    /\ stale = {}
    /\ inflight = NoRequest
    /\ cleanupInterval = Timer
    /\ InitStorePlain
    /\ rc = Idle /\ folded = {} /\ last = NoLast /\ base = NoBase
    /\ \E e \in EdgeLists, n \in NodeIdLists, d \in 0..MaxDepthArg,
          f \in DecayFactors : call = PropagationCall(e, n, d, f)

NextPropagate == CpiBuild \/ CpiFor \/ PfnWhile \/ PfnReturn

SpecPropagate == InitPropagate /\ [][NextPropagate]_vars

\* The function runs to its end once called: no step of it waits for anything.
SpecPropagateLive == SpecPropagate /\ WF_vars(NextPropagate)

\* ------------------------------------------------------ the decay function
DecayWeights == {0, 40, 80}
DecayRates == {-2, 0, 1, 2, 3}        \* -1.0, 0, 0.5, 1.0 and 1.5 per tick
InitDecay ==
    /\ now = 0
    /\ cache = << >>
    /\ stats = [hits |-> 0, misses |-> 0]
    /\ ret = NoRet
    /\ written = << >>
    /\ stale = {}
    /\ inflight = NoRequest
    /\ cleanupInterval = Timer
    /\ InitStorePlain
    /\ rc = Idle /\ folded = {} /\ last = NoLast /\ base = NoBase
    /\ \E w \in DecayWeights, c \in 0..MaxTime, r \in DecayRates :
          call = DecayCall(w, c, r)

NextDecay == DecayReturn \/ Tick

SpecDecay == InitDecay /\ [][NextDecay]_vars

\* ------------------------------------------------ the aggregation functions
MaxNodes == 3                         \* nodes of a findTopInfluencers argument
MaxLimit == 3                         \* its limit argument is 0..MaxLimit
NodeIds == <<"n1", "n2", "n3", "n4", "n5">>
Metrics == {"total", "direct", "propagated", "volatility"}
\* score, rawScore and volatility of a node, with ties in every metric
NodeScores ==
    {[score |-> 10, rawScore |-> 20, volatility |-> 0],
     [score |-> 20, rawScore |-> 10, volatility |-> 5],
     [score |-> 10, rawScore |-> 10, volatility |-> 5]}
NodeLists ==
    UNION {{[i \in 1..n |-> [id |-> NodeIds[i], score |-> f[i].score,
                             rawScore |-> f[i].rawScore,
                             volatility |-> f[i].volatility]] :
               f \in [1..n -> NodeScores]} :
           n \in 0..Min(MaxNodes, Len(NodeIds))}
Departments == {NoDepartment, "d1", "d2"}
\* The nodes A, B and C of the candidate edges, each in a department or in none
DepartmentNodeLists ==
    {<<[id |-> "A", departmentId |-> f["A"]], [id |-> "B", departmentId |-> f["B"]],
       [id |-> "C", departmentId |-> f["C"]]>> :
        f \in [{"A", "B", "C"} -> Departments]}
MatrixCalls == {MatrixCall(e, n) : e \in EdgeLists, n \in DepartmentNodeLists}
MaxHistory == 3                       \* samples of a calculateVolatility argument
HistoryScores == {0, 10, 15, 100}
VolatilityCalls ==
    {VolatilityCall(h) : h \in UNION {[1..n -> HistoryScores] : n \in 0..MaxHistory}}
TopCalls ==
    {TopCall(n, m, l) : n \in NodeLists, m \in Metrics, l \in 0..MaxLimit}

InitAggregation ==
    /\ now = 0
    /\ cache = << >>
    /\ stats = [hits |-> 0, misses |-> 0]
    /\ ret = NoRet
    /\ written = << >>
    /\ stale = {}
    /\ inflight = NoRequest
    /\ cleanupInterval = Timer
    /\ InitStorePlain
    /\ rc = Idle /\ folded = {} /\ last = NoLast /\ base = NoBase
    /\ call \in TopCalls \cup MatrixCalls \cup VolatilityCalls

NextAggregation == TopReturn \/ MatrixReturn \/ VolatilityReturn

SpecAggregation == InitAggregation /\ [][NextAggregation]_vars

\* ---------------------------------------------------- community detection
\* Edges an argument is drawn from: A votes for B and C with equal weight, and
\* B, C vote back.
CommunityEdges ==
    <<PropagationEdge("A", "B", 50), PropagationEdge("A", "C", 50),
      PropagationEdge("B", "A", 50), PropagationEdge("C", "A", 80),
      PropagationEdge("B", "C", 50), PropagationEdge("C", "B", 30)>>
CommunityEdgeLists ==
    {Pick(CommunityEdges, S, 1) : S \in SUBSET (1..Len(CommunityEdges))}
CommunityNodeIds == {<<"A", "B", "C">>, <<"C", "B", "A">>, <<"B", "A">>}

InitCommunity ==
    /\ now = 0
    /\ cache = << >>
    /\ stats = [hits |-> 0, misses |-> 0]
    /\ ret = NoRet
    /\ written = << >>
    /\ stale = {}
    /\ inflight = NoRequest
    /\ cleanupInterval = Timer
    /\ InitStorePlain
    /\ rc = Idle /\ folded = {} /\ last = NoLast /\ base = NoBase
    /\ \E e \in CommunityEdgeLists, n \in CommunityNodeIds :
          call = CommunityCall(e, n)

NextCommunity == DcStart \/ DcVisit \/ DcEndIteration

SpecCommunity == InitCommunity /\ [][NextCommunity]_vars

\* ------------------------------------------------------ the request layer
Init ==
    /\ now = 0
    /\ cache = << >>
    /\ stats = [hits |-> 0, misses |-> 0]
    /\ ret = NoRet
    /\ written = << >>
    /\ stale = {}
    /\ inflight = NoRequest
    /\ cleanupInterval = Timer
    /\ InitStorePlain
    /\ InitRecomputeIdle

Next ==
    \/ \E o \in Orgs, p \in BOOLEAN : GetGraph(o, p)
    \/ \E o \in Orgs, t \in AnalyticsTypes : GetAnalytics(o, t)
    \/ \E o \in Orgs, l \in TopLimits : GetTopInfluencers(o, l)
    \/ \E s \in {"X", Missing}, t \in {"X", "Y", Missing},
          o \in Orgs \cup {Absent}, w \in RouteWeights \cup {Absent} :
          PostEdge(s, t, o, w)
    \/ \E id \in RouteEdgeIds \cup {Absent}, w \in {Given(150), Absent},
          a \in {"false", Missing} : PutEdge(id, w, a)
    \/ \E id \in RouteEdgeIds \cup {Absent} : DeleteEdge(id)
    \/ \E st \in {"ACTIVE", "COMPLETED"}, sc \in {0, 1} : PutProject(st, sc)

Spec == Init /\ [][Next]_vars

\* ================================================================ claims

\* C3: after set(k, v, ttl) at time t, and until a later set, delete,
\* matching deletePattern or clear touches k, get(k) returns v at every time
\* now <= t + ttl; at every later time get(k) returns null and has(k) returns
\* false, and that call leaves no entry for k in the map.
C3_SetThenGet ==
    [][(ret'.op \in {"get", "has"} /\ ret'.key \in DOMAIN written) =>
        LET k == ret'.key
            w == written[k]
        IN IF now <= w.at + w.ttl
           THEN ret'.op = "get" => ret'.val = w.value
           ELSE /\ ret'.op = "get" => ret'.val = Null
                /\ ret'.op = "has" => ~ret'.flag
                /\ k \notin DOMAIN cache']_vars

\* C3 witness: a get() exactly at t + ttl (ttl > 0) that returned the value set.
C3_Witness ==
    /\ ret.op = "get"
    /\ ret.key \in DOMAIN written
    /\ written[ret.key].ttl = 1
    /\ now = written[ret.key].at + 1
    /\ ret.val = "v"

\* Glob over the whole key: "*" matches any substring, every other symbol
\* matches itself, and the pattern must cover the key from start to end.
RECURSIVE GlobHere(_, _, _, _)
GlobHere(p, pi, key, ki) ==
    IF pi > Len(p) THEN ki = Len(key) + 1
    ELSE IF p[pi] = "*"
         THEN \E j \in ki..(Len(key) + 1) : GlobHere(p, pi + 1, key, j)
         ELSE /\ ki <= Len(key)
              /\ p[pi] = key[ki]
              /\ GlobHere(p, pi + 1, key, ki + 1)
GlobMatch(p, key) == GlobHere(p, 1, key, 1)

\* C4: deletePattern(p) removes exactly the keys that p matches as a glob over
\* the whole key ("*" = any substring), leaves every other entry as it was and
\* returns the number of keys removed.
C4_DeletePatternIsGlob ==
    [][ret'.op = "deletePattern" =>
        LET gone == {k \in DOMAIN cache : GlobMatch(ret'.key, k)} IN
        /\ DOMAIN cache' = (DOMAIN cache) \ gone
        /\ \A k \in DOMAIN cache' : cache'[k] = cache[k]
        /\ ret'.count = Cardinality(gone)]_vars

\* C6: getOrSet(key, computeFn, ttl) without interleaving returns the value of
\* a non-expired entry without calling computeFn; otherwise it calls computeFn
\* once, stores the result with expiry now + ttl and returns it; and a getOrSet
\* for the same key right after another does not call computeFn.
C6_GetOrSetContract ==
    [][ret'.op = "getOrSet" =>
        LET k == ret'.key
            live == k \in DOMAIN cache /\ now <= cache[k].expiresAt
        IN /\ IF live
              THEN ret'.count = 0 /\ ret'.val = cache[k].value
              ELSE /\ ret'.count = 1
                   /\ k \in DOMAIN cache'
                   /\ cache'[k].value = ret'.val
                   /\ cache'[k].expiresAt = now + ret'.ttl
           /\ (ret.op = "getOrSet" /\ ret.key = k) => ret'.count = 0]_vars

\* C1: zero edges, processEvents on, one pending event of +15 for X.  The first
\* cycle stores score(X) = 15 and marks the event processed; a second cycle
\* right after it, with no new event or edge, leaves the stored score(X) at 15.
C1_RerunKeepsScore ==
    (/\ rc.pc = "done" /\ rc.processEvents
     /\ rc.edges = << >> /\ rc.events = << >>
     /\ last.ok /\ last.processEvents /\ last.edges = << >>
     /\ Len(last.events) = 1
     /\ last.events[1].subjectUserId = "X"
     /\ last.events[1].weightDelta = 15
     /\ last.scores["X"].score = 15 * Scale
     /\ events[last.events[1].id].processedAt # Never)
    => scores["X"].score = 15 * Scale

\* C2: a cycle marks an event processed only if that cycle wrote the event's
\* weightDelta into the score it stored for the event's subject, whatever the
\* subject; and a processed event is never written into a score again.
C2_ProcessedOnlyIfFolded ==
    [][/\ \A id \in EventIds :
            (/\ events[id] # NoEvent
             /\ events[id].processedAt = Never
             /\ events'[id].processedAt # Never) => id \in folded
       /\ \A id \in folded' \ folded : events[id].processedAt = Never]_vars

\* C5: when a cycle for tenant T is done, the cache holds no entry stored before
\* the cycle's invalidation under any key CacheKeys generates for T in the
\* graph, scores, analytics and top namespaces.
C5_TenantKeys(orgId) ==
    {graph(orgId), graphEdges(orgId), graphNodes(orgId), influenceScores(orgId),
     analytics(orgId), topInfluencers(orgId, <<"total">>)}
C5_NoTenantEntryAfterCycle ==
    rc.pc = "done" =>
        \A k \in C5_TenantKeys(rc.organizationId) : k \notin DOMAIN cache

\* What one uninterrupted cycle started in store b stores.
RECURSIVE C9_PersistFrom(_, _, _, _, _)
C9_PersistFrom(scoreStore, scoresWithIds, i, historicalScores, t) ==
    IF i >= Len(scoresWithIds) THEN scoreStore
    ELSE C9_PersistFrom(
             UpdateScore(scoreStore, scoresWithIds[i + 1].id,
                         ScoreRow(scoresWithIds, i, historicalScores, t)),
             scoresWithIds, i + 1, historicalScores, t)
C9_Uninterrupted(b, orgId) ==
    LET sw == ScoresWithIds(
                  FindActiveUsers(users, b.scores, b.edges, orgId),
                  FindActiveEdges(b.edges, orgId),
                  IF b.processEvents THEN FindPendingEvents(b.events, orgId)
                  ELSE << >>,
                  b.applyDecay, b.t)
        hist == FindHistoricalScores(b.scores,
                    [i \in DOMAIN sw |-> sw[i].id])
    IN C9_PersistFrom(b.scores, sw, 0, hist, b.t)
C9_Core(row) ==
    IF row = NoRow THEN row
    ELSE [score |-> row.score, rawScore |-> row.rawScore,
          volatility |-> row.volatility, rank |-> row.rank]

\* C9: a cycle that aborted at any step and is run again, with no change to
\* edges, events or time in between, stores for every node the score, rawScore,
\* volatility and rank that one uninterrupted cycle would have stored.
C9_RetryEqualsUninterrupted ==
    (rc.pc = "done" /\ base.retried) =>
        \A u \in Users :
            C9_Core(scores[u]) =
                C9_Core(C9_Uninterrupted(base, rc.organizationId)[u])

RECURSIVE C10_Sum(_, _)
C10_Sum(f, S) ==
    IF S = {} THEN 0
    ELSE LET x == CHOOSE y \in S : TRUE IN f[x] + C10_Sum(f, S \ {x})
C10_Direct(u) ==
    LET out == {id \in EdgeIds : /\ edges[id] # NoEdge /\ edges[id].isActive
                                 /\ edges[id].sourceUserId = u}
    IN Scale * C10_Sum([id \in out |->
                 IF rc.applyDecay
                 THEN calculateDecayedWeight(edges[id].weight,
                                             edges[id].createdAt, now)
                 ELSE edges[id].weight], out)
C10_Propagated(u) ==
    propagateFromNode(u,
        buildAdjacencyList(TypedEdges(FindActiveEdges(edges, rc.organizationId),
                                      rc.applyDecay, now)),
        MAX_DEPTH, DECAY_FACTOR).propagatedInfluence
C10_Bonus(u) ==
    LET mine == {id \in EventIds : /\ events[id] # NoEvent
                                   /\ events[id].processedAt = Never
                                   /\ events[id].subjectUserId = u}
    IN IF rc.processEvents
       THEN Scale * C10_Sum([id \in mine |-> events[id].weightDelta], mine)
       ELSE 0

\* C10: the score a cycle stores for a node is max(0, directInfluence +
\* propagatedInfluence + eventBonus), eventBonus being the sum of the node's
\* pending weightDeltas (0 with processEvents off), and the stored rawScore is
\* directInfluence; no stored score is ever negative.
C10_StoredScore ==
    /\ \A u \in Users : scores[u] # NoRow => scores[u].score >= 0
    /\ rc.pc \in {"persist", "markEvents"} =>
          \A i \in 1..rc.i :
              LET u == rc.scoresWithIds[i].id IN
              scores[u] # NoRow =>
                  /\ scores[u].score =
                        Max(0, C10_Direct(u) + C10_Propagated(u) + C10_Bonus(u))
                  /\ scores[u].rawScore = C10_Direct(u)

\* C10 witness: a cycle has stored a row for a node whose sum is below zero, and
\* a row for a node with an outgoing edge and a pending event.
C10_Witness ==
    /\ rc.pc = "markEvents"
    /\ \E i \in 1..rc.i :
          LET d == rc.scoresWithIds[i] IN
          /\ scores[d.id] # NoRow
          /\ d.directInfluence + d.propagatedInfluence + d.eventBonus < 0
    /\ \E i \in 1..rc.i :
          LET d == rc.scoresWithIds[i] IN
          /\ scores[d.id] # NoRow
          /\ d.directInfluence > 0 /\ d.eventBonus > 0

\* C7: after an edge of a tenant is created, updated or deleted, or a project
\* of the tenant completes, the next read of the tenant's graph view or
\* analytics is never answered from a cache entry stored before that mutation.
C7_ReadAfterMutationIsFresh ==
    [][(/\ ret'.op \in {"GET influence", "GET analytics"}
        /\ ret'.flag)
       => ret'.key \notin stale]_vars

\* C8: every stored edge joins two different users with a weight within
\* [0, 100], and a request that carries a self-edge, an out-of-range weight or
\* no id is rejected before anything is written to the store or the cache.
C8_StoredEdgesValid ==
    \A id \in EdgeIds :
        edges[id] # NoEdge =>
            /\ edges[id].sourceUserId # edges[id].targetUserId
            /\ edges[id].weight >= 0
            /\ edges[id].weight <= 100

C8_InvalidRequestWritesNothing ==
    [][ret'.invalid => (edges' = edges /\ cache' = cache)]_vars

C8_EdgeValidation ==
    []C8_StoredEdgesValid /\ C8_InvalidRequestWritesNothing

\* All recorded paths of a call: those of the node in progress and those of
\* the results already set.
RECURSIVE C11_Flatten(_)
C11_Flatten(ss) == IF ss = << >> THEN << >> ELSE Head(ss) \o C11_Flatten(Tail(ss))
C11_ResultPaths ==
    LET ids == SeqOfSet({i \in 1..Len(call.nodeIds) :
                           call.nodeIds[i] \in DOMAIN call.results})
    IN C11_Flatten([k \in DOMAIN ids |-> call.results[call.nodeIds[ids[k]]].paths])
C11_DepthWithinMax ==
    /\ \A p \in {call.paths[k] : k \in DOMAIN call.paths} \cup
                {C11_ResultPaths[k] : k \in DOMAIN C11_ResultPaths} :
           /\ 1 <= p.depth /\ p.depth <= call.maxDepth
           /\ Len(p.path) = p.depth + 1
    /\ call.propagatedInfluence =
           SumSeq([k \in DOMAIN call.paths |-> call.paths[k].weight])
    /\ \A n \in DOMAIN call.results :
           call.results[n].propagatedInfluence =
               SumSeq([k \in DOMAIN call.results[n].paths |->
                          call.results[n].paths[k].weight])

\* C11: for every finite edge list (cycles allowed), node list, maxDepth >= 0
\* and decayFactor, calculatePropagatedInfluence returns, and every recorded
\* path and every contribution to propagatedInfluence has a depth between 1 and
\* maxDepth.
C11_TerminatesWithinMaxDepth ==
    /\ <>(call.pc = "return")
    /\ []C11_DepthWithinMax

\* C11 witness: a call over a graph with the loop A -> A at decayFactor 1.0 has
\* returned, with a path of depth maxDepth >= 2 recorded for A.
C11_Witness ==
    /\ call.pc = "return"
    /\ call.maxDepth >= 2
    /\ call.decayFactor = 10
    /\ \E k \in DOMAIN call.edges :
          call.edges[k].sourceUserId = "A" /\ call.edges[k].targetUserId = "A"
    /\ "A" \in DOMAIN call.results
    /\ \E k \in DOMAIN call.results["A"].paths :
          call.results["A"].paths[k].depth = call.maxDepth

\* The sum of the carried weights of the edge walks that leave `node` with
\* `carried` in hand and take at most `stepsLeft` more edges, a walk ending
\* where its carried weight would fall below 0.01.
RECURSIVE C12_WalkSum(_, _, _, _, _)
C12_WalkSum(edgeSeq, node, carried, stepsLeft, decayFactor) ==
    IF stepsLeft <= 0 THEN 0
    ELSE SumSeq([k \in DOMAIN edgeSeq |->
            IF edgeSeq[k].sourceUserId # node THEN 0
            ELSE LET w == (carried * edgeSeq[k].weight * decayFactor) \div 1000
                 IN IF w < Scale \div 100 THEN 0
                    ELSE w + C12_WalkSum(edgeSeq, edgeSeq[k].targetUserId, w,
                                         stepsLeft - 1, decayFactor)])
C12_Example ==
    /\ call.edges = <<PropagationEdge("A", "B", 80), PropagationEdge("B", "C", 50)>>
    /\ call.maxDepth = 3
    /\ call.decayFactor = 6
    /\ "A" \in DOMAIN call.results

\* C12: propagatedInfluence(s) is the sum of the carried weights of all edge
\* walks from s of 1..maxDepth edges that stay at or above 0.01, the carried
\* weight starting at 1.0 and taking (ew/100) * decayFactor at each edge;
\* directInfluence(s) is the sum of s's outgoing weights, totalInfluence their
\* sum; A -> B (80), B -> C (50), maxDepth 3, decayFactor 0.6 give
\* totalInfluence(A) = 80.624.
C12_WalkSumOfCarriedWeights ==
    /\ \A s \in DOMAIN call.results :
          LET r == call.results[s] IN
          /\ r.propagatedInfluence =
                 C12_WalkSum(call.edges, s, Scale, call.maxDepth, call.decayFactor)
          /\ r.directInfluence =
                 Scale * SumSeq([k \in DOMAIN call.edges |->
                             IF call.edges[k].sourceUserId = s
                             THEN call.edges[k].weight ELSE 0])
          /\ r.totalInfluence = r.directInfluence + r.propagatedInfluence
    /\ C12_Example => call.results["A"].totalInfluence = 80624 * 1000

\* C12 witness: the call of the example has returned.
C12_Witness == C12_Example /\ call.pc = "return"

\* C13: calculatePropagatedInfluence returns a result for every id of nodeIds
\* and raises no error; a node with no adjacency entry (every node, when the
\* edge list is empty) has directInfluence = propagatedInfluence =
\* totalInfluence = 0.
C13_ResultForEveryNode ==
    call.pc = "return" =>
        /\ DOMAIN call.results = {call.nodeIds[k] : k \in DOMAIN call.nodeIds}
        /\ \A n \in DOMAIN call.results :
              (\A k \in DOMAIN call.edges : call.edges[k].sourceUserId # n) =>
                  /\ call.results[n].directInfluence = 0
                  /\ call.results[n].propagatedInfluence = 0
                  /\ call.results[n].totalInfluence = 0

\* C13 witness: a call with edges has returned a result for D, which no edge
\* mentions, and for C, which has incoming edges only.
C13_Witness ==
    /\ call.pc = "return"
    /\ call.nodeIds = <<"C", "D">>
    /\ \E k \in DOMAIN call.edges : call.edges[k].targetUserId = "C"
    /\ \A k \in DOMAIN call.edges : call.edges[k].sourceUserId # "C"
    /\ {"C", "D"} \subseteq DOMAIN call.results

\* C14: no cache operation (get, set, has, delete, deletePattern, getOrSet,
\* clear, getStats) raises an error to its caller, whatever the key, value,
\* ttl or pattern, the patterns the routes build from a caller-supplied tenant
\* id included; a lookup that cannot be satisfied is reported as a miss.
C14_NoErrorToCaller ==
    /\ [](ret.error = "none")
    /\ [][(ret'.op = "get" /\ ret'.key \notin DOMAIN cache) =>
             (ret'.val = Null /\ stats'.misses = stats.misses + 1)]_vars

\* C15: the decayed weight equals the original weight when no time has
\* elapsed, never exceeds the original weight for any createdAt (a createdAt
\* later than now gives no change), and is non-increasing as elapsed time
\* grows, for a rate in [0,1).
C15_DecayNeverGains ==
    (/\ call.fn = "calculateDecayedWeight" /\ call.pc = "return"
     /\ call.decayRate \in {0, 1}) =>
        /\ ~call.result.infinite
        /\ call.at = call.createdAt => call.result.value = call.originalWeight
        /\ call.result.value <= call.originalWeight
        /\ call.at < call.createdAt => call.result.value = call.originalWeight
        /\ \A k \in DOMAIN call.earlier :
              call.result.value <= call.earlier[k].result.value

\* C16: the decay function rejects every decay rate outside [0,1) with an
\* error instead of returning a weight.
C16_RejectsRateOutsideUnit ==
    (/\ call.fn = "calculateDecayedWeight" /\ call.pc = "return"
     /\ call.decayRate \notin {0, 1}) =>
        call.result.error # "none"

\* The number a metric ranks by.
C17_Metric(node, metric) ==
    IF metric = "direct" THEN node.score
    ELSE IF metric = "propagated" THEN node.rawScore - node.score
    ELSE IF metric = "volatility" THEN node.volatility
    ELSE node.rawScore
C17_Position(nodes, id) == CHOOSE i \in DOMAIN nodes : nodes[i].id = id

\* C17: findTopInfluencers returns a list sorted non-increasing by the chosen
\* metric, of length min(limit, number of nodes), nodes of equal metric in
\* their input order, every returned node one of the input nodes, and the
\* input array unchanged.
C17_TopSortedStable ==
    (call.fn = "findTopInfluencers" /\ call.pc = "return") =>
        LET r == call.result IN
        /\ Len(r) = Min(call.limit, Len(call.input))
        /\ \A i, j \in DOMAIN r :
              i < j =>
                 /\ C17_Metric(r[i], call.metric) >= C17_Metric(r[j], call.metric)
                 /\ C17_Metric(r[i], call.metric) = C17_Metric(r[j], call.metric)
                       => C17_Position(call.input, r[i].id)
                            < C17_Position(call.input, r[j].id)
        /\ \A i \in DOMAIN r : \E k \in DOMAIN call.input : r[i] = call.input[k]
        /\ call.nodes = call.input

\* C17 witness: a call over three nodes, the first two tied in the metric and
\* below the third, has returned the top two.
C17_Witness ==
    /\ call.fn = "findTopInfluencers" /\ call.pc = "return"
    /\ Len(call.input) = 3 /\ call.limit = 2
    /\ C17_Metric(call.input[1], call.metric) = C17_Metric(call.input[2], call.metric)
    /\ C17_Metric(call.input[3], call.metric) > C17_Metric(call.input[1], call.metric)
    /\ call.result = <<call.input[3], call.input[1]>>

C18_Group(id) ==
    LET k == CHOOSE k \in DOMAIN call.nodes : call.nodes[k].id = id
    IN call.nodes[k].departmentId
\* The edges from group g to group h, by index.
C18_Between(g, h) ==
    {k \in DOMAIN call.edges : /\ C18_Group(call.edges[k].sourceUserId) = g
                               /\ C18_Group(call.edges[k].targetUserId) = h}
RECURSIVE C18_WeightOf(_)
C18_WeightOf(S) ==
    IF S = {} THEN 0
    ELSE LET k == CHOOSE x \in S : TRUE
         IN call.edges[k].weight + C18_WeightOf(S \ {k})

\* C18: entry [g][h] of the department matrix exists only for g different from
\* h and equals the sum of the weights of all edges from a node of group g to
\* a node of group h; there is never a [g][g] entry, and an edge with an
\* endpoint that has no group contributes to no entry.
C18_MatrixCrossGroupSums ==
    (call.fn = "calculateDepartmentInfluenceMatrix" /\ call.pc = "return") =>
        LET m == call.result IN
        /\ \A g \in DOMAIN m : \A h \in DOMAIN m[g] :
              /\ g # h
              /\ g # "" /\ h # ""
              /\ C18_Between(g, h) # {}
              /\ m[g][h] = C18_WeightOf(C18_Between(g, h))
        /\ \A g, h \in {"d1", "d2"} :
              (g # h /\ C18_Between(g, h) # {}) =>
                  (g \in DOMAIN m /\ h \in DOMAIN m[g])

\* C18 witness: two edges from d1 to d2 were summed while an edge inside d1
\* and an edge from a node without group were left out.
C18_Witness ==
    /\ call.fn = "calculateDepartmentInfluenceMatrix" /\ call.pc = "return"
    /\ C18_Group("A") = "d1" /\ C18_Group("B") = "d2" /\ C18_Group("C") = ""
    /\ Cardinality(C18_Between("d1", "d2")) = 2
    /\ C18_Between("d1", "d1") # {}
    /\ C18_Between("", "d1") # {}
    /\ call.result["d1"]["d2"] = 130

\* n^3 times the population variance of the history: the sum of the squares of
\* n * h[i] - sum.
C20_ScaledVariance(h) ==
    LET n == Len(h)
        sum == SumSeq(h)
    IN SumSeq([i \in 1..n |-> (n * h[i] - sum) * (n * h[i] - sum)])

\* C20: calculateVolatility returns 0 for an empty or one-element history and
\* for a history of equal samples, 50 for [0, 100], and in general a
\* non-negative value whose square is the population variance of the history
\* (here: the integer part of its root).
C20_PopulationDeviation ==
    (call.fn = "calculateVolatility" /\ call.pc = "return") =>
        LET h == call.historicalScores
            n == Len(h)
            v == call.result
        IN /\ n < 2 => v = 0
           /\ (\A i, j \in DOMAIN h : h[i] = h[j]) => v = 0
           /\ h = <<0, 100>> => v = 50
           /\ v >= 0
           /\ n >= 2 => /\ v * v * n * n * n <= C20_ScaledVariance(h)
                        /\ C20_ScaledVariance(h) < (v + 1) * (v + 1) * n * n * n

\* C20 witness: the volatility of three unequal samples, above zero, was
\* returned.
C20_Witness ==
    /\ call.fn = "calculateVolatility" /\ call.pc = "return"
    /\ call.historicalScores = <<0, 15, 100>>
    /\ call.result = 44

\* The weight the out-edges of the visited node give to a label, under the
\* labels the visit found.
C19_Total(label) ==
    SumSeq([k \in DOMAIN call.edges |->
        IF /\ call.edges[k].sourceUserId = call.visit.nodeId
           /\ LabelOf(call.visit.labels, call.edges[k].targetUserId) = label
        THEN call.edges[k].weight ELSE 0])
C19_Voted ==
    {LabelOf(call.visit.labels, call.edges[k].targetUserId) :
        k \in {j \in DOMAIN call.edges :
                  call.edges[j].sourceUserId = call.visit.nodeId}}
C19_Winners ==
    {l \in C19_Voted : \A m \in C19_Voted : C19_Total(l) >= C19_Total(m)}

\* C19: in each iteration a node with out-neighbours is re-labelled to the
\* label whose total edge weight among its out-neighbours' labels is strictly
\* the highest; where the highest total is shared by several labels (the
\* node's own label among them or not) the node keeps its label and counts as
\* unchanged.
C19_StrictPluralityOrKeep ==
    (/\ call.fn = "detectCommunities"
     /\ call.visit # NoVisit
     /\ C19_Voted # {}) =>
        LET nodeId == call.visit.nodeId
            old == call.visit.labels[nodeId]
        IN IF Cardinality(C19_Winners) = 1
           THEN call.labels[nodeId] = CHOOSE l \in C19_Winners : TRUE
           ELSE call.labels[nodeId] = old /\ ~call.visit.changed

\* A cycle that has loaded inputs and has not yet written its last score.
C21_InFlight(r) == r.pc \in {"loadEvents", "loadUsers", "loadHistory", "persist"}
C21_NewScore(r, u) ==
    {r.scoresWithIds[i].newScore :
        i \in {j \in DOMAIN r.scoresWithIds : r.scoresWithIds[j].id = u}}

\* C21: the recompute pipeline has no per-tenant mutual exclusion: while one
\* cycle of a tenant is between LoadInputs and Persist the handler yields to
\* the other request at its await, and a new cycle of the same tenant is taken
\* up; each cycle stores the scores of its own snapshot and marks the events it
\* loaded, so that the score left in the store is the one of the cycle that
\* wrote last, older snapshot or not, with every loaded event marked processed.
C21_NoMutualExclusion ==
    /\ C21_InFlight(rc) => ENABLED RcYield
    /\ (C21_InFlight(inflight.rc) /\ rc.pc = "idle" /\ rc.n < MaxCycles) =>
          ENABLED RcStart(inflight.rc.organizationId, FALSE, TRUE)
    /\ (rc.pc = "done" /\ inflight.rc.pc = "done") =>
          /\ \A u \in Users :
                {scores[u].score} \subseteq
                    C21_NewScore(rc, u) \cup C21_NewScore(inflight.rc, u)
          /\ \A r \in {rc, inflight.rc} : \A k \in DOMAIN r.events :
                events[r.events[k].id].processedAt # Never

\* C21 witness: both cycles are done.  The one that wrote last had loaded its
\* events before the project completed and its users before the other cycle
\* stored anything (currentScore 0); the other had loaded the event, stored
\* score(X) = 15 with it and marked it processed.  The store holds score(X) = 0.
C21_Witness ==
    /\ rc.pc = "done" /\ inflight.rc.pc = "done"
    /\ rc.processEvents /\ rc.events = << >>
    /\ \E i \in DOMAIN rc.scoresWithIds :
          /\ rc.scoresWithIds[i].id = "X"
          /\ rc.scoresWithIds[i].currentScore = 0
          /\ rc.scoresWithIds[i].newScore = 0
    /\ Len(inflight.rc.events) = 1
    /\ inflight.rc.events[1].subjectUserId = "X"
    /\ inflight.rc.events[1].id \in inflight.folded
    /\ C21_NewScore(inflight.rc, "X") = {15 * Scale}
    /\ events[inflight.rc.events[1].id].processedAt # Never
    /\ scores["X"].score = 0

\* C22: under any interleaving of graph-view GET requests with a recompute
\* cycle or an edge mutation of the tenant, a graph view answered from the
\* cache is never one that was built from rows read before a commit whose
\* cache invalidation had completed when it was stored.
C22_NoOldViewAfterInvalidation ==
    [][(/\ ret'.op = "GET influence"
        /\ stats'.hits = stats.hits + 1)
       => ret'.key \notin stale]_vars

\* C23: a cached response is served only to a request with the parameters of
\* the request that produced it: a graph-view request with propagation=true
\* receives propagation results, one with propagation=false none, and a
\* top-influencers request with limit L receives min(L, number of nodes)
\* entries, whatever earlier requests asked for.
C23_ServedForOwnParameters ==
    [][/\ \A o \in Orgs, p \in BOOLEAN :
             GetGraph(o, p) =>
                 ret'.val = IF p THEN "graph+propagation" ELSE "graph"
       /\ \A o \in Orgs, l \in TopLimits :
             GetTopInfluencers(o, l) =>
                 ret'.val = TopBody(TopInfluencers(o, l))]_vars

\* C24: cache invalidation is tenant-scoped: the deletePattern calls a
\* recompute cycle (or an edge or project mutation) issues for one tenant never
\* remove or change a cache entry of a different tenant, tenant ids of which
\* one is a prefix of the other included.
C24_OtherTenantKept ==
    [][\A k \in C5_TenantKeys(OrgB) \cap DOMAIN cache :
          rc.organizationId = OrgA =>
              (k \in DOMAIN cache' /\ cache'[k] = cache[k])]_vars

\* The step a cycle takes from each position: the loads, the scoring (decay,
\* propagation, events, ranking), the writes, the marking, the invalidation.
C25_After(pc) ==
    CASE pc = "loadEdges" -> {"loadEvents"}
      [] pc = "loadEvents" -> {"loadUsers"}
      [] pc = "loadUsers" -> {"loadHistory"}
      [] pc = "loadHistory" -> {"persist", "markEvents", "invalidate"}
      [] pc = "persist" -> {"persist", "markEvents", "invalidate"}
      [] pc = "markEvents" -> {"invalidate"}
      [] pc = "invalidate" -> {"done"}
      [] OTHER -> {"loadEdges"}
C25_AllWritten == rc.i = Len(rc.scoresWithIds)

\* C25: a cycle takes its steps in the order LoadInputs, ApplyDecay, Propagate,
\* MergeEvents, RankAndScore, Persist, InvalidateCache, Done: every score is
\* stored before an event is marked processed and before a cache key is
\* deleted, and a failure in any step ends the cycle with an error response,
\* after which that cycle stores no score, marks no event and deletes no key.
C25_StepOrder ==
    [][/\ rc'.pc # rc.pc => rc'.pc \in C25_After(rc.pc) \cup {"failed"}
       /\ scores' # scores => (rc.pc = "persist" /\ rc'.pc # "failed")
       /\ events' # events => (rc.pc = "markEvents" /\ C25_AllWritten
                                 /\ rc'.pc = "invalidate")
       /\ cache' # cache => (/\ rc.pc = "invalidate" /\ C25_AllWritten
                              /\ rc'.pc = "done"
                              /\ \A k \in DOMAIN rc.events :
                                    events[rc.events[k].id].processedAt # Never)
       /\ rc.pc = "failed" =>
              (scores' = scores /\ events' = events /\ cache' = cache)]_vars

\* C25 witness: a first cycle with a pending event ran to Done; the second
\* failed after it had stored a score.
C25_Witness ==
    /\ last.ok /\ Len(last.events) > 0
    /\ rc.pc = "failed" /\ rc.i > 0

\* The dense rank of position i: 1 plus the number of distinct newScore values
\* above its own.
C26_DenseRank(scoresWithIds, i) ==
    1 + Cardinality({scoresWithIds[j].newScore :
                        j \in {k \in DOMAIN scoresWithIds :
                                  scoresWithIds[k].newScore
                                      > scoresWithIds[i].newScore}})

\* C26: a cycle assigns dense 1-based ranks in descending newScore order: the
\* rank stored for a node is 1 plus the number of distinct newScore values
\* strictly above its own, so that equal newScores share a rank and the ranks
\* in use have no gaps.
C26_DenseRanks ==
    (rc.pc \in {"markEvents", "invalidate", "done"}
       /\ rc.i = Len(rc.scoresWithIds)) =>
        \A i \in DOMAIN rc.scoresWithIds :
            scores[rc.scoresWithIds[i].id] # NoRow =>
                scores[rc.scoresWithIds[i].id].rank
                    = C26_DenseRank(rc.scoresWithIds, i)

\* C27: whenever the background sweep runs, afterwards the map holds no entry
\* with now > expiresAt, no entry with now <= expiresAt was removed, and
\* neither a remaining entry nor the hit/miss counters were changed, under
\* any interleaving with get, set, has, delete and deletePattern; and the
\* sweep does not run after destroy.
C27_SweepRemovesExactlyExpired ==
    [][/\ ret'.op = "cleanup" =>
             /\ DOMAIN cache' = {k \in DOMAIN cache : now <= cache[k].expiresAt}
             /\ \A k \in DOMAIN cache' : cache'[k] = cache[k]
             /\ stats' = stats
             /\ cleanupInterval = Timer
       /\ cleanupInterval = Null =>
             (cleanupInterval' = Null /\ ret'.op # "cleanup")]_vars

\* C27 witness: a sweep has run with an entry past its expiry gone from the
\* map and an entry at its expiry time still in it.
C27_Witness ==
    /\ ret.op = "cleanup"
    /\ \E k \in (DOMAIN written) \ DOMAIN cache :
          now > written[k].at + written[k].ttl
    /\ \E k \in DOMAIN cache : cache[k].expiresAt = now

\* The edge walks that go on from `path` with `carried` in hand, each as the
\* record of its nodes, its carried weight and its length: one walk per edge
\* taken, whether or not its target was met before.
RECURSIVE C28_Walks(_, _, _, _, _)
C28_Walks(edgeSeq, path, carried, maxDepth, decayFactor) ==
    IF Len(path) - 1 >= maxDepth THEN << >>
    ELSE C11_Flatten(
           [k \in DOMAIN edgeSeq |->
              IF edgeSeq[k].sourceUserId # path[Len(path)] THEN << >>
              ELSE LET w == (carried * edgeSeq[k].weight * decayFactor) \div 1000
                       next == Append(path, edgeSeq[k].targetUserId)
                   IN IF w < Scale \div 100 THEN << >>
                      ELSE <<[path |-> next, weight |-> w, depth |-> Len(path)]>>
                           \o C28_Walks(edgeSeq, next, w, maxDepth, decayFactor)])
C28_Count(records, r) == Cardinality({k \in DOMAIN records : records[k] = r})

\* C28: propagation applies no visited-set exclusion: every walk from the
\* source within the depth and pruning bounds has a path record and a term of
\* its own in propagatedInfluence, so that a node reached by k walks counts k
\* times, a node met again at greater depth and the source itself on a cycle
\* included.
C28_EveryWalkCounts ==
    \A s \in DOMAIN call.results :
        LET walks == C28_Walks(call.edges, <<s>>, Scale, call.maxDepth,
                               call.decayFactor)
            paths == call.results[s].paths
        IN /\ Len(paths) = Len(walks)
           /\ \A k \in DOMAIN walks :
                 C28_Count(paths, walks[k]) = C28_Count(walks, walks[k])
           /\ call.results[s].propagatedInfluence =
                 SumSeq([k \in DOMAIN walks |-> walks[k].weight])

\* C28 witness: in the result for A, B is reached twice at depth 1 (two edges
\* A -> B), C at depth 1 and at depth 2, and A itself over the cycle.
C28_Witness ==
    /\ call.pc = "return"
    /\ "A" \in DOMAIN call.results
    /\ LET paths == call.results["A"].paths
           ends(k) == paths[k].path[Len(paths[k].path)]
       IN /\ Cardinality({k \in DOMAIN paths : paths[k].path = <<"A", "B">>}) = 2
          /\ \E k \in DOMAIN paths : ends(k) = "A" /\ paths[k].depth = 3
          /\ \E j, k \in DOMAIN paths :
                /\ ends(j) = "C" /\ ends(k) = "C"
                /\ paths[j].depth < paths[k].depth

\* C29: for a node with no outgoing edges the propagation result has
\* directInfluence = 0, propagatedInfluence = 0 and a path list of exactly one
\* element, the node itself at depth 0, which adds nothing to
\* propagatedInfluence.
C29_NodeWithoutOutgoingEdges ==
    \A n \in DOMAIN call.results :
        (\A k \in DOMAIN call.edges : call.edges[k].sourceUserId # n) =>
            /\ call.results[n].directInfluence = 0
            /\ call.results[n].propagatedInfluence = 0
            /\ Len(call.results[n].paths) = 1
            /\ call.results[n].paths[1].path = <<n>>
            /\ call.results[n].paths[1].depth = 0

\* The label of every visit is the one the labels at the iteration's start give.
C30_Synchronous ==
    (call.visit # NoVisit
       /\ Neighbors(call.adjacencyList, call.visit.nodeId) # << >>) =>
        call.labels[call.visit.nodeId] =
            BestLabel(call.visit.nodeId, call.adjacencyList, call.start)
C30_Frame ==
    /\ call.pc # "call" =>
          /\ DOMAIN call.labels = {call.nodeIds[i] : i \in DOMAIN call.nodeIds}
          /\ \A m, n \in DOMAIN call.start :
                (call.iter = 0 /\ m # n) => call.start[m] # call.start[n]
    /\ call.iter < MAX_ITERATIONS
    /\ call.pc = "return" => (~call.changed \/ call.iter + 1 = MAX_ITERATIONS)

\* C30: community detection is synchronous label propagation: every node
\* starts with a label of its own, the label a node receives in an iteration
\* is computed only from the labels all nodes held when the iteration began,
\* at most 10 iterations run, the run stops after the first iteration without
\* a change, and the result maps exactly the ids of nodeIds.
C30_SynchronousLabelPropagation ==
    call.fn = "detectCommunities" => (C30_Synchronous /\ C30_Frame)

====
